---- MODULE Spec2Model ----
(***************************************************************************)
(* A model of the Logz.io MCP server: the tool handlers (search_logs,      *)
(* query_logs, get_log_stats), the query translation in api/endpoints.ts   *)
(* and api/client.ts, and the retrying request executor                    *)
(* LogzioApiClient.makeRequest.                                            *)
(*                                                                         *)
(* Conventions.  An optional JavaScript value is a sequence of length 0    *)
(* (undefined) or 1.  A JavaScript object with optional keys is a function *)
(* whose DOMAIN is the set of keys present.  Strings the code inspects     *)
(* character by character (queries, header values) are sequences of        *)
(* one-character strings; strings it only compares or concatenates are     *)
(* TLA+ strings.  Instants are whole seconds since the epoch: the code     *)
(* works in milliseconds, and every operation in it carries the            *)
(* millisecond digits through unchanged.                                   *)
(***************************************************************************)
EXTENDS Integers, Sequences, FiniteSets, TLC

VARIABLES
    config,      \* the Config object the client was constructed with
    backend,     \* how the remote backend behaves during this run
    pc,          \* "idle" | "request" | "sleep" | "done"
    op,          \* the operation in progress
    args,        \* the arguments the operation was called with
    clock,       \* the value of new Date() at the call
    timeRange,   \* the tool's local: the result of its parseTimeRange call
    payload,     \* the data of the HTTP request (AxiosRequestConfig.data)
    attempt,     \* makeRequest's attempt parameter
    requests,    \* the number of HTTP requests issued by this call
    response,    \* the outcome of the last HTTP request
    lastError,   \* the classified error of the last failed attempt
    delay,       \* the argument of the last sleep()
    execResult,  \* how makeRequest ended
    opResult,    \* how the operation (tool function, healthCheck) ended
    reply,       \* what the CallTool request handler answered
    calls,       \* the makeRequest calls running concurrently on the client
    main         \* the position and the locals of main()

vars == <<config, backend, pc, op, args, clock, timeRange, payload, attempt,
          requests, response, lastError, delay, execResult, opResult, reply,
          calls, main>>

-----------------------------------------------------------------------------
(* Optional values and objects with optional keys *)

None == <<>>

Some(x) == <<x>>

Field(k, ov) == IF ov = None THEN <<>> ELSE k :> ov[1]

Has(obj, k) == k \in DOMAIN obj

Get(obj, k) == IF k \in DOMAIN obj THEN Some(obj[k]) ELSE None

Min(a, b) == IF a <= b THEN a ELSE b

RECURSIVE Pow2(_)
Pow2(n) == IF n <= 0 THEN 1 ELSE 2 * Pow2(n - 1)

-----------------------------------------------------------------------------
(* Configuration (ConfigSchema) *)

RetryAttemptsMin == 0

RetryAttemptsMax == 10

RetryDelayMin == 100

RetryDelayDefault == 1000

RetryDelayMax == 10000

\* The retryDelay values explored: the schema's bounds, its default, and one between.
RetryDelays == {RetryDelayMin, RetryDelayDefault, 3000, RetryDelayMax}

\* The largest retryAttempts explored when a whole tool call is modelled.
MaxToolRetries == 1

ExecConfigs ==
    [retryAttempts : RetryAttemptsMin..RetryAttemptsMax, retryDelay : RetryDelays]

ToolConfigs ==
    [retryAttempts : RetryAttemptsMin..Min(MaxToolRetries, RetryAttemptsMax),
     retryDelay : {RetryDelayDefault}]

-----------------------------------------------------------------------------
(* Characters and parseInt *)

DigitChars == {"0", "1", "2", "3", "4", "5", "6", "7", "8", "9"}

DigitVal(c) ==
    CASE c = "0" -> 0 [] c = "1" -> 1 [] c = "2" -> 2 [] c = "3" -> 3
      [] c = "4" -> 4 [] c = "5" -> 5 [] c = "6" -> 6 [] c = "7" -> 7
      [] c = "8" -> 8 [] c = "9" -> 9

WhitespaceChars == {" "}

RECURSIVE SkipWhitespace(_)
SkipWhitespace(s) ==
    IF s # <<>> /\ Head(s) \in WhitespaceChars THEN SkipWhitespace(Tail(s)) ELSE s

RECURSIVE DigitRun(_)
DigitRun(s) ==
    IF s # <<>> /\ Head(s) \in DigitChars THEN <<Head(s)>> \o DigitRun(Tail(s)) ELSE <<>>

RECURSIVE DecimalValue(_, _)
DecimalValue(ds, acc) ==
    IF ds = <<>> THEN acc ELSE DecimalValue(Tail(ds), 10 * acc + DigitVal(Head(ds)))

\* parseInt(s, 10): leading whitespace, an optional sign, then the longest run of
\* digits; NaN (None) when there is no digit.
ParseInt(s) ==
    LET t    == SkipWhitespace(s)
        neg  == t # <<>> /\ Head(t) = "-"
        u    == IF t # <<>> /\ Head(t) \in {"-", "+"} THEN Tail(t) ELSE t
        ds   == DigitRun(u)
    IN  IF ds = <<>> THEN None
        ELSE Some(IF neg THEN 0 - DecimalValue(ds, 0) ELSE DecimalValue(ds, 0))

-----------------------------------------------------------------------------
(* HTTP outcomes: what awaiting this.axios(config) can produce *)

NoHeaders == <<>>

RetryAfterValues == {<<"0">>, <<"2">>, <<"3", "0">>, <<"2", "s">>, <<"s", "o", "o", "n">>}

\* Header objects of a 429 response; axios lower-cases names, a hand-made response may not.
RateLimitHeaders ==
    {NoHeaders}
      \cup {("retry-after" :> v) : v \in RetryAfterValues}
      \cup {("Retry-After" :> <<"5">>)}
      \cup {("retry-after" :> <<>>) @@ ("Retry-After" :> <<"5">>)}

ErrorStatuses == {400, 401, 403, 404, 429, 500, 502, 503, 504}

TransientMessages ==
    {"read ECONNRESET", "getaddrinfo ENOTFOUND api.logz.io",
     "connect ECONNREFUSED", "connect ETIMEDOUT"}

TransportMessages == TransientMessages \cup {"canceled"}

NoResponse == [kind |-> "none"]

HttpError(status, headers) ==
    [kind |-> "http", status |-> status, headers |-> headers, data |-> "body"]

TransportError(message) == [kind |-> "transport", isError |-> TRUE, message |-> message]

\* A rejection with a value that is not an Error instance.
ThrownValue == [kind |-> "transport", isError |-> FALSE, message |-> ""]

HttpOk(data) == [kind |-> "ok", status |-> 200, data |-> data]

FailureOutcomes ==
    {HttpError(s, NoHeaders) : s \in ErrorStatuses \ {429}}
      \cup {HttpError(429, h) : h \in RateLimitHeaders}
      \cup {TransportError(m) : m \in TransportMessages}
      \cup {ThrownValue}

-----------------------------------------------------------------------------
(* utils/errors: the error classes.  The file is not part of the sources;  *)
(* the classes are modelled from the error taxonomy of the specification.  *)

NoError == [name |-> "none"]

MkError(name, message, statusCode, retryAfter) ==
    [name |-> name, message |-> message, statusCode |-> statusCode,
     retryAfter |-> retryAfter]

ApiError(message) == MkError("ApiError", message, None, None)

ApiErrorFromResponse(status, data) ==
    MkError("ApiError", "API request failed", Some(status), None)

AuthenticationError(message) == MkError("AuthenticationError", message, Some(401), None)

RateLimitError(message, retryAfter, context) ==
    MkError("RateLimitError", message, Some(context.status), retryAfter)

\* isRetryableError: RateLimit, BackendUnavailable (5xx), and transport errors
\* recognised as transient.
IsRetryableError(e) ==
    \/ e.name = "RateLimitError"
    \/ e.name = "ApiError" /\ e.statusCode # None /\ e.statusCode[1] >= 500
    \/ e.name = "ApiError" /\ e.statusCode = None /\ e.message \in TransientMessages

\* getRetryDelay: the suggested delay of a rate-limit error, in milliseconds.
GetRetryDelay(e) == IF e.name = "RateLimitError" THEN e.retryAfter ELSE None

\* The kind of the taxonomy an error object belongs to.
ErrorKind(e) ==
    CASE e.name = "AuthenticationError" -> "Authentication"
      [] e.name = "RateLimitError" -> "RateLimit"
      [] e.name = "ValidationError" -> "Validation"
      [] e.name = "ConfigurationError" -> "Configuration"
      [] e.name = "ApiError" /\ e.statusCode # None /\ e.statusCode[1] >= 500 ->
            "BackendUnavailable"
      [] e.name = "ApiError" /\ e.statusCode # None /\ e.statusCode[1] >= 400
            /\ e.statusCode[1] < 500 -> "BadRequest"
      [] OTHER -> "Unknown"

-----------------------------------------------------------------------------
(* LogzioApiClient: error conversion and retry policy *)

AuthFailedMessage == "Authentication failed. This could be due to: ..."

\* parseRetryAfter(headers)
ParseRetryAfter(headers) ==
    LET lower == Get(headers, "retry-after")
        upper == Get(headers, "Retry-After")
        \* a || b: the empty string is falsy too
        retryAfter == IF lower # None /\ lower[1] # <<>> THEN lower ELSE upper
    IN  IF retryAfter = None THEN None
        ELSE LET seconds == ParseInt(retryAfter[1])
             IN  IF seconds = None THEN None ELSE Some(seconds[1] * 1000)

NoResponseErrorDropsMessage(o) == ApiError("Unknown API error")

\* handleResponseError, the branch without a response
NoResponseError(o) == ApiError(IF o.isError THEN o.message ELSE "Unknown API error")

\* A conversion that does not look at the status
HandleResponseErrorGeneric(o) ==
    IF o.kind = "http" THEN ApiErrorFromResponse(o.status, o.data) ELSE NoResponseError(o)

\* handleResponseError(error): every failed request is converted by the response
\* interceptor; the result is what makeRequest catches.
HandleResponseError(o) ==
    IF o.kind = "http"
    THEN CASE o.status = 401 -> AuthenticationError(AuthFailedMessage)
           [] o.status = 429 ->
                RateLimitError("Rate limit exceeded", ParseRetryAfter(o.headers),
                               [status |-> o.status, data |-> o.data])
           [] OTHER -> ApiErrorFromResponse(o.status, o.data)
    ELSE NoResponseError(o)

MaxBackoffDelay == 30000

CalculateBackoffDelayUncapped(n) == config.retryDelay * Pow2(n - 1)

\* calculateBackoffDelay(attempt)
CalculateBackoffDelay(n) == Min(config.retryDelay * Pow2(n - 1), MaxBackoffDelay)

\* A retry guard without the limit on the attempts
ShouldRetryUnlimited(n, e) == IsRetryableError(e)

ShouldRetryOffByOne(n, e) == n < config.retryAttempts /\ IsRetryableError(e)

ShouldRetryAnyError(n, e) == n <= config.retryAttempts

\* makeRequest's catch: attempt <= this.config.retryAttempts && isRetryableError(error)
ShouldRetry(n, e) == n <= config.retryAttempts /\ IsRetryableError(e)

\* getRetryDelay(error) || this.calculateBackoffDelay(attempt): undefined and 0
\* are falsy.
RetryDelay(n, e) ==
    LET suggested == GetRetryDelay(e)
    IN  IF suggested # None /\ suggested[1] # 0
        THEN suggested[1]
        ELSE CalculateBackoffDelay(n)

-----------------------------------------------------------------------------
(* Instants and ISO 8601 strings.  An ISO string is the tuple                *)
(* <<days since the epoch, hours, minutes, seconds>>.                        *)

SecondsPerMinute == 60

SecondsPerHour == 3600

SecondsPerDay == 86400

\* Date.prototype.toISOString
ToISOString(t) ==
    <<t \div SecondsPerDay, (t % SecondsPerDay) \div SecondsPerHour,
      (t % SecondsPerHour) \div SecondsPerMinute, t % SecondsPerMinute>>

\* new Date(iso).getTime()
DateParse(iso) ==
    iso[1] * SecondsPerDay + iso[2] * SecondsPerHour + iso[3] * SecondsPerMinute + iso[4]

\* z.string().datetime(): a well-formed UTC date-time
IsDatetime(s) ==
    /\ Len(s) = 4
    /\ s[1] >= 0
    /\ s[2] \in 0..23
    /\ s[3] \in 0..59
    /\ s[4] \in 0..59

RelativeTokens == {"1h", "6h", "12h", "24h", "3d", "7d", "30d"}

\* parseTimeRange with the default branch resolving to the last day
ParseTimeRangeDefaultDay(token, t) ==
    IF token = None \/ token[1] = "" THEN <<>>
    ELSE LET to == ToISOString(t)
             range(seconds) == [from |-> ToISOString(t - seconds), to |-> to]
         IN  CASE token[1] = "1h"  -> range(60 * 60)
               [] token[1] = "6h"  -> range(6 * 60 * 60)
               [] token[1] = "12h" -> range(12 * 60 * 60)
               [] token[1] = "3d"  -> range(3 * 24 * 60 * 60)
               [] token[1] = "7d"  -> range(7 * 24 * 60 * 60)
               [] token[1] = "30d" -> range(30 * 24 * 60 * 60)
               [] OTHER -> range(24 * 60 * 60)

\* parseTimeRange with the week of "7d" counted in hours
ParseTimeRangeWrongWeek(token, t) ==
    IF token = None \/ token[1] = "" THEN <<>>
    ELSE LET to == ToISOString(t)
             range(seconds) == [from |-> ToISOString(t - seconds), to |-> to]
         IN  CASE token[1] = "1h"  -> range(60 * 60)
               [] token[1] = "6h"  -> range(6 * 60 * 60)
               [] token[1] = "12h" -> range(12 * 60 * 60)
               [] token[1] = "24h" -> range(24 * 60 * 60)
               [] token[1] = "3d"  -> range(3 * 24 * 60 * 60)
               [] token[1] = "7d"  -> range(7 * 60 * 60)
               [] token[1] = "30d" -> range(30 * 24 * 60 * 60)
               [] OTHER -> <<>>

\* parseTimeRange(timeRange?) evaluated when new Date() is t
ParseTimeRange(token, t) ==
    IF token = None \/ token[1] = "" THEN <<>>
    ELSE LET to == ToISOString(t)
             range(seconds) == [from |-> ToISOString(t - seconds), to |-> to]
         IN  CASE token[1] = "1h"  -> range(60 * 60)
               [] token[1] = "6h"  -> range(6 * 60 * 60)
               [] token[1] = "12h" -> range(12 * 60 * 60)
               [] token[1] = "24h" -> range(24 * 60 * 60)
               [] token[1] = "3d"  -> range(3 * 24 * 60 * 60)
               [] token[1] = "7d"  -> range(7 * 24 * 60 * 60)
               [] token[1] = "30d" -> range(30 * 24 * 60 * 60)
               [] OTHER -> <<>>

\* a || b on optional strings: undefined and "" are falsy
OrElse(a, b) == IF a # None /\ a[1] # "" THEN a ELSE b

\* a || b on optional date-time strings, which are never empty
OrElseDate(a, b) == IF a # None THEN a ELSE b

-----------------------------------------------------------------------------
(* Character strings: String.prototype.includes, trim, split(/\s+/) *)

IsPrefix(p, s) == Len(p) <= Len(s) /\ SubSeq(s, 1, Len(p)) = p

IsSuffix(p, s) == Len(p) <= Len(s) /\ SubSeq(s, Len(s) - Len(p) + 1, Len(s)) = p

Includes(s, sub) ==
    \E i \in 1..(Len(s) - Len(sub) + 1) : SubSeq(s, i, i + Len(sub) - 1) = sub

RECURSIVE TrimEnd(_)
TrimEnd(s) ==
    IF s # <<>> /\ s[Len(s)] \in WhitespaceChars THEN TrimEnd(SubSeq(s, 1, Len(s) - 1)) ELSE s

Trim(s) == TrimEnd(SkipWhitespace(s))

\* s.split(/\s+/): the maximal runs between runs of whitespace; [""] for "".
RECURSIVE SplitWords(_, _, _)
SplitWords(s, cur, acc) ==
    IF s = <<>> THEN Append(acc, cur)
    ELSE IF Head(s) \in WhitespaceChars
         THEN SplitWords(SkipWhitespace(s), <<>>, Append(acc, cur))
         ELSE SplitWords(Tail(s), Append(cur, Head(s)), acc)

Words(s) == SplitWords(s, <<>>, <<>>)

Quote == <<"\"">>

AndOperator == <<" ", "A", "N", "D", " ">>

OrOperator == <<" ", "O", "R", " ">>

NotOperator == <<" ", "N", "O", "T", " ">>

LevelClause == <<" ", "A", "N", "D", " ", "l", "e", "v", "e", "l", ":">>

LevelClauseDisjunctive == <<" ", "O", "R", " ", "l", "e", "v", "e", "l", ":">>

\* smartPhraseDetection(query)
SmartPhraseDetection(query) ==
    IF \/ Includes(query, Quote)
       \/ Includes(query, <<":">>)
       \/ Includes(query, AndOperator)
       \/ Includes(query, OrOperator)
       \/ Includes(query, NotOperator)
       \/ Includes(query, <<"*">>)
       \/ Includes(query, <<"?">>)
    THEN query
    ELSE LET words == Words(Trim(query))
             hasSpecialChars ==
                 \/ Includes(query, <<"-">>)
                 \/ Includes(query, <<"_">>)
                 \/ Includes(query, <<".">>)
             isLikelyPhrase ==
                 /\ Len(words) <= 6
                 /\ (hasSpecialChars \/ \E i \in 1..Len(words) : Len(words[i]) > 3)
         IN  IF Len(words) > 1 /\ isLikelyPhrase
             THEN Quote \o query \o Quote
             ELSE query

Severities == {"trace", "debug", "info", "warn", "error", "fatal"}

\* The characters of a severity name, as the template literal appends them.
SeverityChars(s) ==
    CASE s = "trace" -> <<"t", "r", "a", "c", "e">>
      [] s = "debug" -> <<"d", "e", "b", "u", "g">>
      [] s = "info"  -> <<"i", "n", "f", "o">>
      [] s = "warn"  -> <<"w", "a", "r", "n">>
      [] s = "error" -> <<"e", "r", "r", "o", "r">>
      [] s = "fatal" -> <<"f", "a", "t", "a", "l">>

-----------------------------------------------------------------------------
(* Query translation: LogzioApiClient.searchLogs, buildLuceneQuery,         *)
(* LogzioApiClient.getLogStats                                              *)

DefaultSearchSize == 50

DefaultQuerySize == 100

MaxLimit == 1000

GroupBySize == 20

ByLevelSize == 10

\* The sort clause with the direction ignored
SortClauseDescending(order) == <<("@timestamp" :> [order |-> "desc"])>>

SortClause(order) == <<("@timestamp" :> [order |-> order])>>

QueryString(q) == [query_string |-> [query |-> q]]

\* The range filter with the lower bound only
RangeFilterLowerOnly(from, to) ==
    [range |-> ("@timestamp" :> Field("gte", from))]

RangeFilter(from, to) ==
    [range |-> ("@timestamp" :> (Field("gte", from) @@ Field("lte", to)))]

\* String.prototype.includes('desc') on the sort strings the tools pass
IncludesDesc(sort) == sort \in {"@timestamp:desc", "desc"}

\* LogzioApiClient.searchLogs(params): the queryBody it posts
SearchQueryBody(params) ==
    LET from == Get(params, "from")
        to   == Get(params, "to")
        text == QueryString(params.query)
        size == IF Has(params, "size") /\ params.size # 0
                THEN params.size ELSE DefaultSearchSize
        query == IF from # None \/ to # None
                 THEN [bool |-> [must |-> <<text>>, filter |-> RangeFilter(from, to)]]
                 ELSE text
        sort == IF Has(params, "sort") /\ params.sort # ""
                THEN IF IncludesDesc(params.sort) THEN SortClause("desc")
                     ELSE SortClause("asc")
                ELSE SortClause("desc")
    IN  [query |-> query, size |-> size, sort |-> sort]

\* buildLuceneQuery with the clause inside bool.must quoted as a phrase
BuildLuceneQueryQuotedInBool(q) ==
    LET from == Get(q, "from")
        to   == Get(q, "to")
        query == IF from # None \/ to # None
                 THEN [bool |-> [must |-> <<QueryString(Quote \o q.query \o Quote)>>,
                                 filter |-> RangeFilter(from, to)]]
                 ELSE QueryString(q.query)
        size == IF Has(q, "size") /\ q.size # 0 THEN Some(q.size) ELSE None
        sort == IF Has(q, "sort") THEN q.sort ELSE SortClause("desc")
    IN  [query |-> query, sort |-> sort] @@ Field("size", size)

\* buildLuceneQuery(query)
BuildLuceneQuery(q) ==
    LET from == Get(q, "from")
        to   == Get(q, "to")
        query == IF from # None \/ to # None
                 THEN [bool |-> [must |-> <<QueryString(q.query)>>,
                                 filter |-> RangeFilter(from, to)]]
                 ELSE QueryString(q.query)
        size == IF Has(q, "size") /\ q.size # 0 THEN Some(q.size) ELSE None
        sort == IF Has(q, "sort") THEN q.sort ELSE SortClause("desc")
    IN  [query |-> query, sort |-> sort] @@ Field("size", size)

\* getTimeInterval with strict comparisons
GetTimeIntervalStrict(from, to) ==
    IF from = None \/ to = None THEN "1h"
    ELSE LET diffSeconds == DateParse(to[1]) - DateParse(from[1])
         IN  IF diffSeconds < 6 * SecondsPerHour THEN "30m"
             ELSE IF diffSeconds < 24 * SecondsPerHour THEN "1h"
             ELSE IF diffSeconds < 72 * SecondsPerHour THEN "3h"
             ELSE IF diffSeconds < 168 * SecondsPerHour THEN "6h"
             ELSE "1d"

\* getTimeInterval(from?, to?)
GetTimeInterval(from, to) ==
    IF from = None \/ to = None THEN "1h"
    ELSE LET diffSeconds == DateParse(to[1]) - DateParse(from[1])
         IN  IF diffSeconds <= 6 * SecondsPerHour THEN "30m"
             ELSE IF diffSeconds <= 24 * SecondsPerHour THEN "1h"
             ELSE IF diffSeconds <= 72 * SecondsPerHour THEN "3h"
             ELSE IF diffSeconds <= 168 * SecondsPerHour THEN "6h"
             ELSE "1d"

TermsAggregation(field, size) ==
    [terms |-> [field |-> field \o ".keyword", size |-> size,
                order |-> [_count |-> "desc"]]]

\* params.groupBy.forEach(field => queryBody.aggs[`by_${field}`] = ...): a later
\* assignment to the same key replaces the earlier one.
RECURSIVE AddGroupBy(_, _)
AddGroupBy(aggs, fields) ==
    IF fields = <<>> THEN aggs
    ELSE AddGroupBy((("by_" \o Head(fields)) :> TermsAggregation(Head(fields), GroupBySize))
                      @@ aggs,
                    Tail(fields))

\* getLogStats with the groupBy aggregations assigned after by_level
StatsQueryBodyGroupByLast(params) ==
    LET from == Get(params, "from")
        to   == Get(params, "to")
        histogram ==
            [date_histogram |->
                [field |-> "@timestamp", interval |-> GetTimeInterval(from, to),
                 order |-> [_key |-> "desc"]]]
        query == IF from # None \/ to # None
                 THEN [bool |-> [filter |-> RangeFilter(from, to)]]
                 ELSE [match_all |-> <<>>]
        base == [by_level |-> TermsAggregation("level", ByLevelSize)]
                  @@ [time_histogram |-> histogram]
        aggs == IF Has(params, "groupBy") /\ Len(params.groupBy) > 0
                THEN AddGroupBy(base, params.groupBy)
                ELSE base
    IN  [query |-> query, size |-> 0, aggs |-> aggs]

\* LogzioApiClient.getLogStats(params): the queryBody it posts
StatsQueryBody(params) ==
    LET from == Get(params, "from")
        to   == Get(params, "to")
        histogram ==
            [date_histogram |->
                [field |-> "@timestamp", interval |-> GetTimeInterval(from, to),
                 order |-> [_key |-> "desc"]]]
        query == IF from # None \/ to # None
                 THEN [bool |-> [filter |-> RangeFilter(from, to)]]
                 ELSE [match_all |-> <<>>]
        grouped == IF Has(params, "groupBy") /\ Len(params.groupBy) > 0
                   THEN AddGroupBy([time_histogram |-> histogram], params.groupBy)
                   ELSE [time_histogram |-> histogram]
        aggs == [by_level |-> TermsAggregation("level", ByLevelSize)] @@ grouped
    IN  [query |-> query, size |-> 0, aggs |-> aggs]

\* healthCheck's request body
HealthQueryBody == [query |-> [match_all |-> <<>>], size |-> 0]

-----------------------------------------------------------------------------
(* Tool errors (utils/errors, modelled from the specification) and zod      *)

ValidationError(message) == MkError("ValidationError", message, None, None)

ToolError(message, toolName, originalError) ==
    [name |-> "ToolError", message |-> message, statusCode |-> None, retryAfter |-> None,
     toolName |-> toolName, context |-> [originalError |-> originalError]]

TypeError(message) == MkError("TypeError", message, None, None)

\* Whether a ZodError has the zod 3 alias .errors of .issues; zod 4, which
\* package.json requires, has only .issues.
ZodErrorHasErrorsAlias == FALSE

RECURSIVE Join(_)
Join(messages) ==
    IF messages = <<>> THEN ""
    ELSE IF Len(messages) = 1 THEN messages[1]
    ELSE messages[1] \o ", " \o Join(Tail(messages))

Issue(bad, message) == IF bad THEN <<message>> ELSE <<>>

BadDatetime(a, k) == Has(a, k) /\ ~IsDatetime(a[k])

BadSize(a, k) == Has(a, k) /\ (a[k] < 1 \/ a[k] > MaxLimit)

BadSort(a) == Has(a, "sort") /\ a.sort \notin {"asc", "desc"}

\* SearchLogsParamsSchema.parse(params): the issues found
SearchIssues(a) ==
    Issue(~Has(a, "query"), "Invalid input: expected string, received undefined")
      \o Issue(Has(a, "query") /\ Len(a.query) < 1, "Query cannot be empty")
      \o Issue(BadDatetime(a, "from"), "Invalid ISO datetime")
      \o Issue(BadDatetime(a, "to"), "Invalid ISO datetime")
      \o Issue(Has(a, "severity") /\ a.severity \notin Severities, "Invalid option")
      \o Issue(BadSize(a, "limit"), "Number out of range")
      \o Issue(BadSort(a), "Invalid option")

\* QueryLogsParamsSchema.parse(params): the issues found
QueryIssues(a) ==
    Issue(~Has(a, "luceneQuery"), "Invalid input: expected string, received undefined")
      \o Issue(Has(a, "luceneQuery") /\ Len(a.luceneQuery) < 1,
               "Lucene query cannot be empty")
      \o Issue(BadDatetime(a, "from"), "Invalid ISO datetime")
      \o Issue(BadDatetime(a, "to"), "Invalid ISO datetime")
      \o Issue(BadSize(a, "size"), "Number out of range")
      \o Issue(BadSort(a), "Invalid option")

\* LogStatsParamsSchema.parse(params): the issues found
StatsIssues(a) ==
    Issue(BadDatetime(a, "from"), "Invalid ISO datetime")
      \o Issue(BadDatetime(a, "to"), "Invalid ISO datetime")

\* A schema's defaults, applied to the keys the caller left out
WithDefault(a, k, v) == IF Has(a, k) THEN a ELSE (k :> v) @@ a

Threw(e) == [status |-> "threw", error |-> e]

\* A call that returns without its value
ReturnedUndefined(v) == [status |-> "returned", value |-> <<>>]

Returned(v) == [status |-> "returned", value |-> v]

Pending == [status |-> "pending"]

NotCalled == [called |-> FALSE]

\* The synchronous part of a tool function: it throws, or it has built the
\* request it awaits.
Awaiting(body, range) == [status |-> "request", payload |-> body, timeRange |-> range]

\* The bounds of the relative range taking precedence over the explicit ones
ResolveTimeRangeTokenFirst(v, t) ==
    LET token == OrElse(Get(v, "timeRange"), Some("24h"))
        range == ParseTimeRange(token, t)
    IN  [from |-> OrElseDate(Get(range, "from"), Get(v, "from")),
         to |-> OrElseDate(Get(range, "to"), Get(v, "to")),
         call |-> [called |-> TRUE, token |-> token[1], result |-> range]]

\* The tools' "Determine time range" block: the explicit bounds, completed from
\* parseTimeRange(validatedParams.timeRange || '24h') when one is missing.
ResolveTimeRange(v, t) ==
    LET from0 == Get(v, "from")
        to0   == Get(v, "to")
        token == OrElse(Get(v, "timeRange"), Some("24h"))
        range == ParseTimeRange(token, t)
    IN  IF from0 = None \/ to0 = None
        THEN [from |-> OrElseDate(from0, Get(range, "from")),
              to |-> OrElseDate(to0, Get(range, "to")),
              call |-> [called |-> TRUE, token |-> token[1], result |-> range]]
        ELSE [from |-> from0, to |-> to0, call |-> NotCalled]

SeverityClauseDisjunctive(severity) == LevelClauseDisjunctive \o SeverityChars(severity)

\* ` AND level:${validatedParams.severity}`
SeverityClause(severity) == LevelClause \o SeverityChars(severity)

\* searchLogs(client, params) up to its await of client.searchLogs
SearchLogsTool(a, t) ==
    IF SearchIssues(a) # <<>>
    THEN Threw(ValidationError("Invalid parameters: " \o Join(SearchIssues(a))))
    ELSE LET v == WithDefault(WithDefault(a, "limit", DefaultSearchSize), "sort", "desc")
             enhancedQuery == SmartPhraseDetection(v.query)
             time == ResolveTimeRange(v, t)
             query == IF Has(v, "severity")
                      THEN enhancedQuery \o SeverityClause(v.severity)
                      ELSE enhancedQuery
             searchParams ==
                 [query |-> query, size |-> v.limit,
                  sort |-> IF v.sort = "desc" THEN "@timestamp:desc" ELSE "@timestamp:asc"]
                   @@ Field("from", time.from) @@ Field("to", time.to)
                   @@ Field("type", OrElse(Get(v, "logType"), None))
         IN  Awaiting(SearchQueryBody(searchParams), time.call)

\* queryLogs(client, params) up to its await of client.queryLogs
QueryLogsTool(a, t) ==
    IF QueryIssues(a) # <<>>
    THEN Threw(ValidationError("Invalid parameters: " \o Join(QueryIssues(a))))
    ELSE LET v == WithDefault(WithDefault(a, "size", DefaultQuerySize), "sort", "desc")
             queryConfig ==
                 [query |-> v.luceneQuery, size |-> v.size,
                  sort |-> IF v.sort = "desc" THEN SortClause("desc") ELSE SortClause("asc")]
                   @@ Field("from", Get(v, "from")) @@ Field("to", Get(v, "to"))
         IN  Awaiting(BuildLuceneQuery(queryConfig), NotCalled)

\* getLogStats(client, params) up to its await of client.getLogStats.  Its catch
\* block reads error.errors of the ZodError.
GetLogStatsTool(a, t) ==
    IF StatsIssues(a) # <<>>
    THEN IF ZodErrorHasErrorsAlias
         THEN Threw(ValidationError("Invalid parameters: " \o Join(StatsIssues(a))))
         ELSE Threw(TypeError("Cannot read properties of undefined (reading 'map')"))
    ELSE LET time == ResolveTimeRange(a, t)
             statsParams ==
                 Field("from", time.from) @@ Field("to", time.to)
                   @@ Field("groupBy", Get(a, "groupBy"))
         IN  Awaiting(StatsQueryBody(statsParams), time.call)

-----------------------------------------------------------------------------
(* Responses: the SearchResponse bodies of the backend and what the tools   *)
(* make of them.  hits.total is a bare number or an object with a value.    *)

JNumber(n) == [type |-> "number", value |-> n]

JObject(value) == [type |-> "object", value |-> value]

\* The total read from a bare number only
TotalOfNumberOnly(hits) ==
    IF ~Has(hits, "total") THEN 0
    ELSE IF hits.total.type = "number" THEN hits.total.value
    ELSE 0

\* typeof total === 'number' ? total : total?.value || 0
TotalOf(hits) ==
    IF ~Has(hits, "total") THEN 0
    ELSE IF hits.total.type = "number" THEN hits.total.value
    ELSE IF hits.total.value = None THEN 0
    ELSE hits.total.value[1]

\* searchLogs and queryLogs after the response arrived
FormatHits(body) ==
    IF ~Has(body, "hits") \/ ~Has(body.hits, "hits")
    THEN [content |-> "no logs found", total |-> 0, returned |-> 0]
    ELSE [content |-> "results", total |-> TotalOf(body.hits),
          returned |-> Len(body.hits.hits)]

\* The number of buckets of an aggregation the summary lists: slice(0, 10)
TopBuckets == 10

\* a || b || 0 on the optional numbers a and b: undefined and 0 are falsy
FirstCount(a, b) ==
    IF a # None /\ a[1] # 0 THEN a[1]
    ELSE IF b # None /\ b[1] # 0 THEN b[1]
    ELSE 0

\* response.aggregations.time_histogram.buckets.map(bucket => ({key, count:
\* bucket.doc_count, timestamp})) || []: the buckets of the LogStatsResponse
ClientBuckets(body) ==
    IF Has(body, "aggregations")
         /\ Has(body.aggregations, "time_histogram")
         /\ Has(body.aggregations.time_histogram, "buckets")
    THEN LET raw == body.aggregations.time_histogram.buckets
         IN  [i \in 1..Len(raw) |->
                [key |-> raw[i].key] @@ Field("count", Get(raw[i], "doc_count"))]
    ELSE <<>>

\* formatTimeBuckets(buckets): the (key, count) lines of the time distribution,
\* with count = bucket.count || bucket.doc_count || 0
FormatTimeBuckets(buckets) ==
    [i \in 1..Min(Len(buckets), TopBuckets) |->
        [key |-> buckets[i].key,
         count |-> FirstCount(Get(buckets[i], "count"), Get(buckets[i], "doc_count"))]]

\* formatAggregations(aggregations): for every aggregation but time_histogram the
\* (key, count) lines, with count = bucket.doc_count || bucket.count || 0
FormatAggregations(aggregations) ==
    [field \in {f \in DOMAIN aggregations :
                    f # "time_histogram" /\ Has(aggregations[f], "buckets")} |->
        LET raw == aggregations[field].buckets
        IN  [i \in 1..Min(Len(raw), TopBuckets) |->
                [key |-> raw[i].key,
                 count |-> FirstCount(Get(raw[i], "doc_count"), Get(raw[i], "count"))]]]

\* LogzioApiClient.getLogStats after the response arrived, then the tool's summary
FormatStats(body) ==
    LET total == IF Has(body, "hits") THEN TotalOf(body.hits) ELSE 0
        buckets == ClientBuckets(body)
        aggregations == IF Has(body, "aggregations") THEN body.aggregations ELSE <<>>
    IN  [content |-> "statistics", total |-> total, returned |-> Len(buckets),
         buckets |-> FormatTimeBuckets(buckets),
         breakdown |-> FormatAggregations(aggregations)]

ToolNames == {"search_logs", "query_logs", "get_log_stats"}

\* A tool function after its request succeeded with this body
CompleteTool(name, body) ==
    CASE name = "search_logs" -> Returned(FormatHits(body))
      [] name = "query_logs" -> Returned(FormatHits(body))
      [] name = "get_log_stats" -> Returned(FormatStats(body))
      [] name = "healthCheck" -> Returned([content |-> "ok", total |-> 0, returned |-> 0])

\* The advice getLogStats appends, chosen by what the message mentions
StatsAdvice(message) ==
    IF message \in {"timeout of 30000ms exceeded"} THEN " Suggestions: smaller time range"
    ELSE " Alternatives: search_logs, query_logs"

\* A tool function's catch block after its request failed with error e (never a
\* ZodError), and healthCheck's
FailTool(name, e) ==
    CASE name = "search_logs" ->
            Threw(ToolError("Failed to search logs: " \o e.message, "search_logs", e))
      [] name = "query_logs" ->
            Threw(ToolError("Failed to execute Lucene query: " \o e.message,
                            "query_logs", e))
      [] name = "get_log_stats" ->
            Threw(ToolError("Failed to get log statistics: " \o e.message
                              \o StatsAdvice(e.message), "get_log_stats", e))
      [] name = "healthCheck" ->
            Threw(MkError("Error", "Health check failed: " \o e.message, None, None))

-----------------------------------------------------------------------------
(* LogzioMcpServer: the CallTool request handler *)

McpError(code, message) == [name |-> "McpError", code |-> code, message |-> message]

\* Names every object inherits from Object.prototype
InheritedNames == {"toString", "constructor"}

\* isValidTool(toolName): toolName in TOOL_HANDLERS
IsValidTool(name) == name \in ToolNames \cup InheritedNames

\* The handler's catch with a fixed message for whatever was thrown
ServerReplyFixedMessage(result) ==
    IF result.status = "returned" THEN result
    ELSE Threw(McpError("InternalError", "Tool execution failed"))

\* The handler's try/catch around executeTool
ServerReply(result) ==
    IF result.status = "returned" THEN result
    ELSE IF result.error.name = "ToolError"
         THEN Threw(McpError("InternalError",
                             "Tool execution failed: " \o result.error.message))
    ELSE IF result.error.name = "ConfigurationError"
         THEN Threw(McpError("InvalidParams",
                             "Configuration error: " \o result.error.message))
    ELSE Threw(McpError("InternalError", "Unexpected error: " \o result.error.message))

\* The reply for an operation: healthCheck is not called through the handler
ReplyFor(name, result) == IF name = "healthCheck" THEN Pending ELSE ServerReply(result)

\* TOOL_HANDLERS[toolName](client, params) up to its first await
RunTool(name, a, t) ==
    CASE name = "search_logs" -> SearchLogsTool(a, t)
      [] name = "query_logs" -> QueryLogsTool(a, t)
      [] name = "get_log_stats" -> GetLogStatsTool(a, t)
      [] OTHER ->
            \* an inherited property is called as if it were a handler, and what it
            \* returns has no content
            Threw(TypeError("Cannot read properties of undefined (reading '0')"))

-----------------------------------------------------------------------------
(* The inputs explored *)

\* Values of new Date(): half a minute after midnight, and a second before 13:00
Nows == {20000 * SecondsPerDay + 30, 20000 * SecondsPerDay + 12 * SecondsPerHour + 3599}

\* Explicit date-times: two in the past, one in the future, and one zod rejects
DateEarly == <<19998, 8, 0, 0>>

DateLate == <<19999, 20, 30, 0>>

DateFuture == <<20001, 0, 0, 0>>

DateMalformed == <<20000, 24, 0, 0>>

\* timeRange arguments: absent, empty, the seven tokens, and an unknown token
TimeRangeInputs == {None, Some(""), Some("2h")} \cup {Some(k) : k \in RelativeTokens}

FromInputs == {None, Some(DateEarly), Some(DateLate), Some(DateFuture), Some(DateMalformed)}

\* Lower bounds one second more than 6 hours and than 168 hours before DateLate
DateSixHoursBefore == <<19999, 14, 29, 59>>

DateWeekBefore == <<19992, 20, 29, 59>>

StatsFromInputs == FromInputs \cup {Some(DateSixHoursBefore), Some(DateWeekBefore)}

ToInputs == {None, Some(DateEarly), Some(DateLate)}

QueryTimeout == <<"t", "i", "m", "e", "o", "u", "t">>

QueryPhrase == <<"d", "b", " ", "d", "o", "w", "n">>

QueryShortWords == <<"a", " ", "b">>

QueryField == <<"a", ":", "b">>

QueryInputs == {<<>>, QueryTimeout, QueryPhrase, QueryShortWords, QueryField}

SeverityInputs == {None, Some("error"), Some("warn"), Some("critical")}

LogTypeInputs == {None, Some("application"), Some("system")}

SizeInputs == {None, Some(10), Some(0)}

SortInputs == {None, Some("asc"), Some("desc")}

GroupByInputs ==
    {None, Some(<<>>), Some(<<"service">>), Some(<<"level", "host">>),
     Some(<<"host", "host">>)}

TimeArgs(tr, from, to) == Field("timeRange", tr) @@ Field("from", from) @@ Field("to", to)

Call(name, a, t) == [name |-> name, args |-> a, now |-> t]

\* search_logs calls: every combination of the time arguments, and every
\* combination of the others
SearchCalls ==
    {Call("search_logs",
          [query |-> QueryTimeout] @@ Field("severity", sev) @@ TimeArgs(tr, from, to), t) :
        sev \in {None, Some("error")}, tr \in TimeRangeInputs, from \in FromInputs,
        to \in ToInputs, t \in Nows}
      \cup
    {Call("search_logs",
          [query |-> q] @@ Field("severity", sev) @@ Field("logType", lt)
            @@ Field("limit", limit) @@ Field("sort", sort)
            @@ TimeArgs(tr, None, None), t) :
        q \in QueryInputs, sev \in SeverityInputs, lt \in LogTypeInputs,
        limit \in SizeInputs, sort \in SortInputs, tr \in {None, Some("1h")},
        t \in {CHOOSE n \in Nows : TRUE}}

QueryCalls ==
    {Call("query_logs",
          [luceneQuery |-> q] @@ Field("size", size) @@ Field("sort", sort)
            @@ TimeArgs(None, from, to), t) :
        q \in {<<>>, QueryTimeout, QueryField, QueryPhrase}, size \in SizeInputs, sort \in SortInputs,
        from \in FromInputs, to \in ToInputs, t \in {CHOOSE n \in Nows : TRUE}}

StatsCalls ==
    {Call("get_log_stats", Field("groupBy", g) @@ TimeArgs(tr, from, to), t) :
        g \in GroupByInputs, tr \in TimeRangeInputs, from \in StatsFromInputs,
        to \in ToInputs, t \in Nows}

OtherCalls ==
    {Call(name, <<>>, CHOOSE n \in Nows : TRUE) :
        name \in InheritedNames \cup {"delete_logs"}}

ToolCalls == SearchCalls \cup QueryCalls \cup StatsCalls \cup OtherCalls

Doc(id) == [_id |-> id, _source |-> [message |-> "m"]]

Bucket(key, name, n) == [key |-> key] @@ (name :> n)

\* A body with aggregations whose buckets name their count field name
StatsBody(name) ==
    [took |-> 3, hits |-> [total |-> JNumber(7), hits |-> <<>>],
     aggregations |->
        [time_histogram |->
            [buckets |-> <<Bucket("2024-10-04T00:00:00Z", name, 5),
                           Bucket("2024-10-03T23:00:00Z", name, 2)>>],
         by_level |-> [buckets |-> <<Bucket("error", name, 4), Bucket("info", name, 3)>>]]]

Bodies ==
    { [took |-> 3],
      [took |-> 3, hits |-> [total |-> JNumber(42), hits |-> <<Doc("a"), Doc("b")>>]],
      [took |-> 3, hits |-> [total |-> JObject(Some(42)), hits |-> <<Doc("a")>>]],
      [took |-> 3, hits |-> [hits |-> <<>>]],
      [took |-> 3, hits |-> [hits |-> <<Doc("a")>>]],
      StatsBody("doc_count"),
      StatsBody("count") }

\* The outcomes explored for the requests of a tool call
ToolOutcomes ==
    {HttpOk(b) : b \in Bodies}
      \cup {HttpError(status, NoHeaders) : status \in {400, 401, 503}}
      \cup {HttpError(429, "retry-after" :> <<"2">>), TransportError("read ECONNRESET"),
            TransportError("canceled")}

\* The outcomes explored for the requests of a bare executor call
ExecOutcomes == {HttpOk([took |-> 3])} \cup FailureOutcomes

BackendModes == {"arbitrary", "always503"}

\* What the backend may answer to one request
Answers(outcomes) ==
    IF backend = "always503" THEN {HttpError(503, NoHeaders)} ELSE outcomes

-----------------------------------------------------------------------------
(* The state machine *)

InitWith(configs, modes) ==
    /\ config \in configs
    /\ backend \in modes
    /\ pc = "idle"
    /\ op = "none"
    /\ args = <<>>
    /\ clock = 0
    /\ timeRange = NotCalled
    /\ payload = <<>>
    /\ attempt = 0
    /\ requests = 0
    /\ response = NoResponse
    /\ lastError = NoError
    /\ delay = 0
    /\ execResult = Pending
    /\ opResult = Pending
    /\ reply = Pending

\* makeRequest(config): the first attempt is sent
SendFirst(body) ==
    /\ payload' = body
    /\ attempt' = 1
    /\ requests' = requests + 1
    /\ response' = NoResponse
    /\ pc' = "request"
    /\ UNCHANGED <<lastError, delay, execResult, opResult, reply>>

\* The CallTool request handler, up to the first await of the tool it runs
ToolCall(name, a, t) ==
    /\ pc = "idle"
    /\ op' = name
    /\ args' = a
    /\ clock' = t
    /\ UNCHANGED <<config, backend, calls, main>>
    /\ IF ~IsValidTool(name)
       THEN /\ reply' = Threw(McpError("MethodNotFound", "Unknown tool: " \o name))
            /\ pc' = "done"
            /\ UNCHANGED <<timeRange, payload, attempt, requests, response, lastError,
                           delay, execResult, opResult>>
       ELSE LET run == RunTool(name, a, t)
            IN  IF run.status = "threw"
                THEN /\ opResult' = run
                     /\ reply' = ServerReply(run)
                     /\ pc' = "done"
                     /\ UNCHANGED <<timeRange, payload, attempt, requests, response,
                                    lastError, delay, execResult>>
                ELSE /\ timeRange' = run.timeRange
                     /\ SendFirst(run.payload)

\* LogzioApiClient.healthCheck(), up to its await of makeRequest
HealthCheckCall ==
    /\ pc = "idle"
    /\ op' = "healthCheck"
    /\ SendFirst(HealthQueryBody)
    /\ UNCHANGED <<config, backend, args, clock, timeRange, calls, main>>

\* The request in flight completes: makeRequest returns the body, or catches the
\* converted error and either sleeps before the next attempt or rethrows; when it
\* ends, so do the operation and the handler awaiting it.
HttpRespond(outcomes) ==
    /\ pc = "request"
    /\ \E o \in Answers(outcomes) :
          /\ response' = o
          /\ IF o.kind = "ok"
             THEN /\ execResult' = Returned(o.data)
                  /\ opResult' = CompleteTool(op, o.data)
                  /\ reply' = ReplyFor(op, CompleteTool(op, o.data))
                  /\ pc' = "done"
                  /\ UNCHANGED <<lastError, delay>>
             ELSE LET e == HandleResponseError(o)
                  IN  /\ lastError' = e
                      /\ IF ShouldRetry(attempt, e)
                         THEN /\ delay' = RetryDelay(attempt, e)
                              /\ pc' = "sleep"
                              /\ UNCHANGED <<execResult, opResult, reply>>
                         ELSE /\ execResult' = Threw(e)
                              /\ opResult' = FailTool(op, e)
                              /\ reply' = ReplyFor(op, FailTool(op, e))
                              /\ pc' = "done"
                              /\ UNCHANGED delay
    /\ UNCHANGED <<config, backend, op, args, clock, timeRange, payload, attempt, requests,
                   calls, main>>

\* The next attempt sent without awaiting the request in flight or the sleep
SleepElapsedSpeculative ==
    /\ pc \in {"request", "sleep"}
    /\ attempt <= config.retryAttempts
    /\ attempt' = attempt + 1
    /\ requests' = requests + 1
    /\ response' = NoResponse
    /\ pc' = "request"
    /\ UNCHANGED <<config, backend, op, args, clock, timeRange, payload, lastError, delay,
                   execResult, opResult, reply, calls, main>>

\* The sleep ends and makeRequest(config, attempt + 1) sends the next attempt
SleepElapsed ==
    /\ pc = "sleep"
    /\ attempt' = attempt + 1
    /\ requests' = requests + 1
    /\ response' = NoResponse
    /\ pc' = "request"
    /\ UNCHANGED <<config, backend, op, args, clock, timeRange, payload, lastError, delay,
                   execResult, opResult, reply, calls, main>>

\* No concurrent calls, and main() not modelled
NoCalls == <<>>

NoMain == [pc |-> "none"]

\* One tool call through the server
Init == InitWith(ToolConfigs, {"arbitrary"}) /\ calls = NoCalls /\ main = NoMain

\* A CallTool request arrives
CallToolRequest == pc = "idle" /\ \E c \in ToolCalls : ToolCall(c.name, c.args, c.now)

Next ==
    \/ CallToolRequest
    \/ HttpRespond(ToolOutcomes)
    \/ SleepElapsed

Spec == Init /\ [][Next]_vars

\* One bare executor call (healthCheck), every configuration of the retry policy
InitExec == InitWith(ExecConfigs, BackendModes) /\ calls = NoCalls /\ main = NoMain

NextExec ==
    \/ HealthCheckCall
    \/ HttpRespond(ExecOutcomes)
    \/ SleepElapsed

SpecExec == InitExec /\ [][NextExec]_vars

-----------------------------------------------------------------------------
(* Properties of the request executor, checked under SpecExec *)

\* C1 as stated: against a backend that answers every attempt with 503, a call
\* configured with N >= 1 attempts issues exactly N requests and then fails with a
\* BackendUnavailable error.
C1_ExactlyNRequests ==
    (backend = "always503" /\ config.retryAttempts >= 1 /\ pc = "done") =>
        /\ execResult.status = "threw"
        /\ requests = config.retryAttempts
        /\ ErrorKind(execResult.error) = "BackendUnavailable"

\* C1, amended: against a backend that answers every attempt with 503, a call
\* configured with retryAttempts = N issues exactly N + 1 requests, the first
\* attempt and N retries, and then fails with the 503 BackendUnavailable error.
C1_FirstAttemptPlusNRetries ==
    (backend = "always503" /\ pc = "done") =>
        /\ execResult.status = "threw"
        /\ requests = config.retryAttempts + 1
        /\ execResult.error.name = "ApiError"
        /\ execResult.error.statusCode = Some(503)
        /\ ErrorKind(execResult.error) = "BackendUnavailable"

C1_Witness ==
    /\ backend = "always503"
    /\ pc = "done"
    /\ config.retryAttempts = 3
    /\ requests = 4

\* C2: when the failure carries no suggested delay, the delay slept after failed
\* attempt k is min(retryDelay * 2^(k-1), 30000); it never exceeds 30000 and is not
\* below the backoff delay of any earlier attempt of the call.
C2_ExponentialBackoff ==
    (pc = "sleep" /\ lastError.retryAfter = None) =>
        /\ delay = Min(config.retryDelay * Pow2(attempt - 1), 30000)
        /\ delay <= 30000
        /\ \A k \in 1..(attempt - 1) :
              Min(config.retryDelay * Pow2(k - 1), 30000) <= delay

C2_Witness ==
    /\ pc = "sleep"
    /\ lastError.retryAfter = None
    /\ config.retryDelay = 100
    /\ attempt = 10
    /\ delay = 30000

\* C3 as stated: after a 429 whose Retry-After header parses to the integer s, with
\* attempts remaining, the executor sleeps s * 1000 ms.
C3_RetryAfterHonoured ==
    (pc = "sleep" /\ response.kind = "http" /\ response.status = 429) =>
        \A k \in DOMAIN response.headers :
            ParseInt(response.headers[k]) # None =>
                delay = ParseInt(response.headers[k])[1] * 1000

\* C4: a failed attempt with status 400, 401, 403 or 404 ends the call (401 as an
\* AuthenticationError) with no further request; a failed attempt with status 429,
\* 502, 503 or 504 is followed by a sleep and another attempt while attempts remain.
C4_RetryEligibilityByStatus ==
    /\ (response.kind = "http" /\ response.status \in {400, 401, 403, 404}) =>
          /\ pc = "done"
          /\ execResult.status = "threw"
          /\ execResult.error.statusCode = Some(response.status)
          /\ response.status = 401 => execResult.error.name = "AuthenticationError"
    /\ (response.kind = "http" /\ response.status \in {429, 502, 503, 504}
          /\ attempt <= config.retryAttempts) =>
          /\ pc = "sleep"
          /\ ENABLED SleepElapsed

C4_Witness ==
    /\ response.kind = "http"
    /\ response.status = 401
    /\ attempt = 2
    /\ config.retryAttempts >= 2
    /\ pc = "done"

-----------------------------------------------------------------------------
(* Properties of the tools, checked under Spec *)

TimeTools == {"search_logs", "get_log_stats"}

\* The @timestamp range of a posted body; the empty object when it has no filter
TimestampRange(body) ==
    IF Has(body.query, "bool") THEN body.query.bool.filter.range["@timestamp"] ELSE <<>>

\* The issues the schema of a tool finds in its arguments
IssuesOf(name, a) ==
    CASE name = "search_logs" -> SearchIssues(a)
      [] name = "query_logs" -> QueryIssues(a)
      [] name = "get_log_stats" -> StatsIssues(a)

\* The nominal length of a relative token, in hours
NominalHours(token) ==
    CASE token = "1h" -> 1 [] token = "6h" -> 6 [] token = "12h" -> 12
      [] token = "24h" -> 24 [] token = "3d" -> 72 [] token = "7d" -> 168
      [] token = "30d" -> 720

NoExplicitBounds == ~Has(args, "from") /\ ~Has(args, "to")

\* C6 as stated: each of the three tools, called with arguments its schema
\* rejects, fails with a ValidationError, and no HTTP request is issued.
C6_ValidationFailsBeforeNetwork ==
    (op \in ToolNames /\ pc # "idle" /\ IssuesOf(op, args) # <<>>) =>
        /\ pc = "done"
        /\ requests = 0
        /\ opResult.status = "threw"
        /\ ErrorKind(opResult.error) = "Validation"

\* C7 as stated: in every body search_logs and get_log_stats post, the lower time
\* bound is not after the upper one when both are present.
C7_FromNotAfterTo ==
    (op \in TimeTools /\ requests >= 1) =>
        LET range == TimestampRange(payload)
        IN  (Has(range, "gte") /\ Has(range, "lte")) =>
                DateParse(range.gte) <= DateParse(range.lte)

\* C8: for each of the seven relative tokens, parseTimeRange called at instant
\* now returns to = now and from = now - duration, so that to - from is exactly
\* 1, 6, 12, 24, 72, 168 or 720 hours, and from <= to.
C8_RelativeTokenDurations ==
    (timeRange.called /\ timeRange.token \in RelativeTokens) =>
        LET range == timeRange.result
        IN  /\ DOMAIN range = {"from", "to"}
            /\ IsDatetime(range.from) /\ IsDatetime(range.to)
            /\ DateParse(range.to) = clock
            /\ DateParse(range.to) - DateParse(range.from)
                  = NominalHours(timeRange.token) * 3600
            /\ DateParse(range.from) <= DateParse(range.to)

C8_Witness ==
    /\ timeRange.called
    /\ timeRange.token = "7d"
    /\ timeRange.result.from = <<19993, 0, 0, 30>>
    /\ timeRange.result.to = <<20000, 0, 0, 30>>

\* C9 as stated: a timeRange outside the seven tokens does not make the call
\* fail; parseTimeRange returns the empty range for it, and with no explicit
\* from/to the posted body has no @timestamp range filter.
C9_UnknownTokenUnbounded ==
    (op \in TimeTools /\ pc # "idle" /\ Has(args, "timeRange")
        /\ args.timeRange \notin RelativeTokens /\ NoExplicitBounds
        /\ IssuesOf(op, args) = <<>>) =>
        /\ requests >= 1
        /\ ParseTimeRange(Some(args.timeRange), clock) = <<>>
        /\ TimestampRange(payload) = <<>>
        /\ ~Has(payload.query, "bool")

\* C9, amended: the same for a non-empty timeRange outside the seven tokens (an
\* empty timeRange is taken as absent and the default of 24h applies).
C9_UnknownNonEmptyTokenUnbounded ==
    (op \in TimeTools /\ pc # "idle" /\ Has(args, "timeRange")
        /\ args.timeRange \notin RelativeTokens /\ args.timeRange # ""
        /\ NoExplicitBounds /\ IssuesOf(op, args) = <<>>) =>
        /\ requests >= 1
        /\ timeRange.called /\ timeRange.token = args.timeRange
        /\ timeRange.result = <<>>
        /\ TimestampRange(payload) = <<>>
        /\ ~Has(payload.query, "bool")

C9_Witness ==
    /\ op = "search_logs"
    /\ pc = "request"
    /\ Has(args, "timeRange") /\ args.timeRange = "2h"
    /\ NoExplicitBounds
    /\ payload.query = [query_string |-> [query |-> QueryTimeout]]

\* C10: a search with query q, a recognised token t and severity s (and no
\* explicit from/to) posts a bool query whose @timestamp range has
\* gte = now - duration(t) and lte = now, and whose only must clause is a
\* query_string ending in " AND level:s", appended to q or to q in quotes.
C10_SearchPayload ==
    (op = "search_logs" /\ requests >= 1 /\ Has(args, "timeRange")
        /\ args.timeRange \in RelativeTokens /\ Has(args, "severity")
        /\ NoExplicitBounds) =>
        /\ DOMAIN payload.query = {"bool"}
        /\ LET range == TimestampRange(payload)
           IN  /\ DOMAIN range = {"gte", "lte"}
               /\ DateParse(range.lte) = clock
               /\ DateParse(range.gte) = clock - NominalHours(args.timeRange) * 3600
        /\ Len(payload.query.bool.must) = 1
        /\ LET text == payload.query.bool.must[1].query_string.query
               suffix == <<" ", "A", "N", "D", " ", "l", "e", "v", "e", "l", ":">>
                            \o SeverityChars(args.severity)
               prefix == SubSeq(text, 1, Len(text) - Len(suffix))
           IN  /\ IsSuffix(suffix, text)
               /\ prefix \in {args.query, <<"\"">> \o args.query \o <<"\"">>}

C10_Witness ==
    /\ op = "search_logs"
    /\ pc = "request"
    /\ args.query = QueryPhrase
    /\ Has(args, "timeRange") /\ args.timeRange = "1h"
    /\ Has(args, "severity") /\ args.severity = "error"
    /\ payload.query.bool.must[1].query_string.query[1] = "\""

\* The arguments of a call without one of them
Without(a, k) == [x \in DOMAIN a \ {k} |-> a[x]]

\* C11 as stated: a search that supplies logType posts a body different from
\* the body of the same search without logType, so that the results are
\* restricted to that log type.
C11_LogTypeReachesPayload ==
    (op = "search_logs" /\ requests >= 1 /\ Has(args, "logType")) =>
        payload # SearchLogsTool(Without(args, "logType"), clock).payload

HitTools == {"search_logs", "query_logs"}

\* The time bounds a tool hands to its payload builder: search_logs
\* and get_log_stats pass the resolved bounds to the client, query_logs the
\* caller's to buildLuceneQuery
BoundsPassed ==
    IF op \in TimeTools
    THEN LET time == ResolveTimeRange(args, clock) IN [from |-> time.from, to |-> time.to]
    ELSE [from |-> Get(args, "from"), to |-> Get(args, "to")]

\* The query_string clause of a posted body, bare or inside bool.must
TextClause(body) ==
    IF Has(body.query, "bool") THEN body.query.bool.must[1] ELSE body.query

\* C12: in the bodies of search_logs and query_logs the text clause is wrapped in
\* bool{must: [clause], filter: {range: {@timestamp}}} iff from or to is present;
\* the range has gte exactly when from is present and lte exactly when to is, with
\* their values; with neither present the query is the bare query_string clause.
C12_RangeWrapping ==
    (op \in HitTools /\ requests >= 1) =>
        LET b == BoundsPassed
        IN  IF b.from = None /\ b.to = None
            THEN DOMAIN payload.query = {"query_string"}
            ELSE /\ DOMAIN payload.query = {"bool"}
                 /\ DOMAIN payload.query.bool = {"must", "filter"}
                 /\ Len(payload.query.bool.must) = 1
                 /\ DOMAIN payload.query.bool.must[1] = {"query_string"}
                 /\ DOMAIN payload.query.bool.filter = {"range"}
                 /\ DOMAIN payload.query.bool.filter.range = {"@timestamp"}
                 /\ LET range == payload.query.bool.filter.range["@timestamp"]
                    IN  /\ Has(range, "gte") <=> b.from # None
                        /\ Has(range, "lte") <=> b.to # None
                        /\ Has(range, "gte") => range.gte = b.from[1]
                        /\ Has(range, "lte") => range.lte = b.to[1]

C12_Witness ==
    /\ op = "query_logs"
    /\ pc = "request"
    /\ ~Has(args, "from") /\ Has(args, "to")
    /\ DOMAIN TimestampRange(payload) = {"lte"}

\* C13: every body search_logs and query_logs post has exactly one sort clause,
\* on @timestamp; its order is desc when the caller gave no sort direction and
\* the caller's direction otherwise.
C13_SortClause ==
    (op \in HitTools /\ requests >= 1) =>
        /\ Has(payload, "sort")
        /\ Len(payload.sort) = 1
        /\ DOMAIN payload.sort[1] = {"@timestamp"}
        /\ DOMAIN payload.sort[1]["@timestamp"] = {"order"}
        /\ payload.sort[1]["@timestamp"].order
              = (IF Has(args, "sort") THEN args.sort ELSE "desc")

C13_Witness ==
    /\ op = "search_logs"
    /\ pc = "request"
    /\ Has(args, "sort") /\ args.sort = "asc"
    /\ payload.sort[1]["@timestamp"].order = "asc"

\* C14: in every body query_logs posts, the query_string.query value is the
\* caller's luceneQuery unchanged, bare or inside the time-range bool query.
C14_LuceneQueryVerbatim ==
    (op = "query_logs" /\ requests >= 1) =>
        /\ DOMAIN TextClause(payload) = {"query_string"}
        /\ DOMAIN TextClause(payload).query_string = {"query"}
        /\ TextClause(payload).query_string.query = args.luceneQuery

C14_Witness ==
    /\ op = "query_logs"
    /\ pc = "request"
    /\ args.luceneQuery = QueryPhrase
    /\ Has(args, "from")
    /\ Has(payload.query, "bool")
    /\ payload.query.bool.must[1].query_string.query = QueryPhrase

\* C15 as stated: for every field f of the groupBy list of a get_log_stats call,
\* the posted body has a terms aggregation for f on f.keyword, capped at 20
\* buckets and ordered by descending count.
C15_GroupByAggregations ==
    (op = "get_log_stats" /\ requests >= 1 /\ Has(args, "groupBy")) =>
        \A i \in 1..Len(args.groupBy) :
            LET f == args.groupBy[i]
            IN  /\ Has(payload.aggs, "by_" \o f)
                /\ payload.aggs["by_" \o f]
                      = [terms |-> [field |-> f \o ".keyword", size |-> 20,
                                    order |-> [_count |-> "desc"]]]

\* The keys of the aggregations of a body that are date histograms
HistogramKeys(body) == {k \in DOMAIN body.aggs : Has(body.aggs[k], "date_histogram")}

\* C16: every body get_log_stats posts has size 0, exactly one date-histogram
\* aggregation, on @timestamp and ordered by descending key, and a by_level terms
\* aggregation on level.keyword capped at 10 buckets, ordered by descending count.
C16_StatsPayloadShape ==
    (op = "get_log_stats" /\ requests >= 1) =>
        /\ payload.size = 0
        /\ Cardinality(HistogramKeys(payload)) = 1
        /\ \A k \in HistogramKeys(payload) :
              /\ payload.aggs[k].date_histogram.field = "@timestamp"
              /\ payload.aggs[k].date_histogram.order = [_key |-> "desc"]
        /\ Has(payload.aggs, "by_level")
        /\ payload.aggs.by_level
              = [terms |-> [field |-> "level.keyword", size |-> 10,
                            order |-> [_count |-> "desc"]]]

C16_Witness ==
    /\ op = "get_log_stats"
    /\ pc = "request"
    /\ Has(args, "groupBy") /\ args.groupBy = <<"level", "host">>
    /\ DOMAIN payload.aggs = {"time_histogram", "by_level", "by_host"}

\* The date_histogram interval of a posted statistics body
IntervalOf(body) == body.aggs.time_histogram.date_histogram.interval

\* The span to - from of the bounds passed, in seconds
SpanPassed == DateParse(BoundsPassed.to[1]) - DateParse(BoundsPassed.from[1])

\* C17: the histogram bucket width of a statistics body is 1h when from or to is
\* absent, and otherwise 30m for a span to - from of at most 6 h, 1h up to 24 h,
\* 3h up to 72 h, 6h up to 168 h, and 1d beyond; so the spans 6h, 6h+1s, 24h,
\* 72h, 168h and 168h+1s give 30m, 1h, 1h, 3h, 6h and 1d.
C17_BucketWidth ==
    (op = "get_log_stats" /\ requests >= 1) =>
        IF BoundsPassed.from = None \/ BoundsPassed.to = None
        THEN IntervalOf(payload) = "1h"
        ELSE /\ SpanPassed <= 21600 => IntervalOf(payload) = "30m"
             /\ (21600 < SpanPassed /\ SpanPassed <= 86400) => IntervalOf(payload) = "1h"
             /\ (86400 < SpanPassed /\ SpanPassed <= 259200) => IntervalOf(payload) = "3h"
             /\ (259200 < SpanPassed /\ SpanPassed <= 604800) => IntervalOf(payload) = "6h"
             /\ SpanPassed > 604800 => IntervalOf(payload) = "1d"

C17_Witness ==
    /\ op = "get_log_stats"
    /\ pc = "request"
    /\ BoundsPassed.from # None /\ BoundsPassed.to # None
    /\ SpanPassed = 21601
    /\ IntervalOf(payload) = "1h"

-----------------------------------------------------------------------------
(* Properties of the replies, checked under Spec *)

\* A tool call whose last request was answered with a response body
Answered == op \in ToolNames /\ pc = "done" /\ response.kind = "ok"

RawCount(bucket) ==
    IF Has(bucket, "doc_count") THEN bucket.doc_count
    ELSE IF Has(bucket, "count") THEN bucket.count
    ELSE 0

\* C19 as stated: for every aggregation bucket of a response, of the time
\* histogram as of the terms aggregations, the (key, count) pair get_log_stats
\* reports has the bucket's count, whether its field is named count or doc_count.
C19_BucketCountUniform ==
    (Answered /\ op = "get_log_stats" /\ Has(response.data, "aggregations")) =>
        LET aggregations == response.data.aggregations
            histogram == aggregations.time_histogram.buckets
        IN  /\ Len(opResult.value.buckets) = Len(histogram)
            /\ \A i \in 1..Len(histogram) :
                  /\ opResult.value.buckets[i].key = histogram[i].key
                  /\ opResult.value.buckets[i].count = RawCount(histogram[i])
            /\ \A f \in DOMAIN aggregations \ {"time_histogram"} :
                  /\ Has(opResult.value.breakdown, f)
                  /\ \A i \in 1..Len(aggregations[f].buckets) :
                        /\ opResult.value.breakdown[f][i].key = aggregations[f].buckets[i].key
                        /\ opResult.value.breakdown[f][i].count
                              = RawCount(aggregations[f].buckets[i])

FinalFailureKinds == {"Authentication", "BadRequest", "RateLimit", "BackendUnavailable"}

\* C20 as stated: when the request of a tool finally fails with an Authentication,
\* BadRequest, RateLimit or BackendUnavailable error, the tool returns no result:
\* it fails with an error whose kind is that failure class and which carries the
\* name of the operation.
C20_TypedFinalErrors ==
    (op \in ToolNames /\ pc = "done" /\ execResult.status = "threw"
        /\ ErrorKind(execResult.error) \in FinalFailureKinds) =>
        /\ opResult.status = "threw"
        /\ reply.status = "threw"
        /\ opResult.error.toolName = op
        /\ ErrorKind(opResult.error) = ErrorKind(execResult.error)

\* What the tools and the handler put before and after a message they wrap
WrapPrefixes ==
    {"Tool execution failed: Failed to search logs: ",
     "Tool execution failed: Failed to execute Lucene query: ",
     "Tool execution failed: Failed to get log statistics: ",
     "Unexpected error: "}

WrapSuffixes == {"", " Suggestions: smaller time range", " Alternatives: search_logs, query_logs"}

\* message contains original, between the texts the wrappers add
Wraps(message, original) ==
    \E prefix \in WrapPrefixes, suffix \in WrapSuffixes :
        message = prefix \o original \o suffix

\* C21: an unexpected exception raised while a tool call is handled (a transport
\* failure without a response, or an exception thrown by the tool's own code)
\* reaches the client as an McpError whose message contains the message of the
\* original exception; nothing else escapes the handler, and the call does not
\* succeed.
C21_UnexpectedErrorsWrapped ==
    (pc = "done" /\ op # "none") =>
        /\ reply.status \in {"returned", "threw"}
        /\ reply.status = "threw" => reply.error.name = "McpError"
        /\ opResult.status = "threw" => reply.status = "threw"
        /\ (opResult.status = "threw" /\ opResult.error.name = "TypeError") =>
              Wraps(reply.error.message, opResult.error.message)
        /\ (response.kind = "transport" /\ response.isError) =>
              /\ reply.status = "threw"
              /\ execResult.error.message = response.message
              /\ Wraps(reply.error.message, response.message)

C21_Witness ==
    /\ pc = "done"
    /\ op = "query_logs"
    /\ response.kind = "transport"
    /\ response.message = "canceled"
    /\ reply.error.message
          = "Tool execution failed: Failed to execute Lucene query: canceled"

-----------------------------------------------------------------------------
(* Temporal properties of the request executor, checked under SpecExec *)

\* A request is in flight: it was sent and has not completed
InFlight == pc = "request"

\* C22: within one executor call at most one request is in flight: a request is
\* sent only when none is in flight, as the first attempt or after the previous
\* attempt failed and the sleep for the delay computed for it has ended; every
\* attempt is one request, and attempt numbers increase by exactly one.
C22_StrictlySequential ==
    /\ [](attempt = requests /\ (InFlight <=> (attempt >= 1 /\ response = NoResponse)))
    /\ [][(requests' # requests \/ attempt' # attempt) =>
            /\ ~InFlight
            /\ requests' = requests + 1
            /\ attempt' = attempt + 1
            /\ pc' = "request"
            /\ \/ pc = "idle" /\ attempt = 0
               \/ /\ pc = "sleep"
                  /\ response.kind \in {"http", "transport"}
                  /\ lastError = HandleResponseError(response)
                  /\ ShouldRetry(attempt, lastError)
                  /\ delay = RetryDelay(attempt, lastError)]_vars

C22_Witness ==
    /\ op = "healthCheck"
    /\ pc = "request"
    /\ attempt = 3
    /\ requests = 3
    /\ delay = 2 * config.retryDelay

-----------------------------------------------------------------------------
(* Concurrent calls of makeRequest on one client.  The client's fields      *)
(* (config, axios, logger) are assigned in the constructor only; attempt,    *)
(* error and delay are parameters and locals of each call.                   *)

CallIds == {"a", "b"}

\* The outcomes explored for the requests of concurrent calls
ConcOutcomes ==
    {HttpOk([took |-> 3]), HttpError(400, NoHeaders), HttpError(503, NoHeaders),
     HttpError(429, "retry-after" :> <<"2">>)}

\* A call of makeRequest that has not sent its first attempt; seen is the
\* sequence of the outcomes of its own requests
NewCall ==
    [pc |-> "idle", attempt |-> 0, requests |-> 0, seen |-> <<>>,
     lastError |-> NoError, delay |-> 0, result |-> Pending]

\* The call after it sent its next attempt: this.axios(config)
Sent(call) ==
    [call EXCEPT !.pc = "request", !.attempt = call.attempt + 1,
                 !.requests = call.requests + 1]

\* The call after its request in flight completed with outcome o
AfterResponse(call, o) ==
    LET e == HandleResponseError(o)
        seen == Append(call.seen, o)
    IN  IF o.kind = "ok"
        THEN [call EXCEPT !.pc = "done", !.seen = seen, !.result = Returned(o.data)]
        ELSE IF ShouldRetry(call.attempt, e)
        THEN [call EXCEPT !.pc = "sleep", !.seen = seen, !.lastError = e,
                          !.delay = RetryDelay(call.attempt, e)]
        ELSE [call EXCEPT !.pc = "done", !.seen = seen, !.lastError = e,
                          !.result = Threw(e)]

\* The calls with the attempt number kept in a field of the client
RespondUpdateSharedAttempt(cs, c, o) ==
    [d \in DOMAIN cs |->
        IF d = c THEN AfterResponse(cs[c], o)
        ELSE IF o.kind = "ok" THEN [cs[d] EXCEPT !.attempt = 0]
        ELSE cs[d]]

\* The calls after the request of call c completed with outcome o
RespondUpdate(cs, c, o) == [cs EXCEPT ![c] = AfterResponse(cs[c], o)]

ConcStart(c) ==
    /\ calls[c].pc = "idle"
    /\ calls' = [calls EXCEPT ![c] = Sent(calls[c])]
    /\ UNCHANGED <<config, backend, pc, op, args, clock, timeRange, payload, attempt,
                   requests, response, lastError, delay, execResult, opResult, reply, main>>

ConcRespond(c) ==
    /\ calls[c].pc = "request"
    /\ \E o \in ConcOutcomes : calls' = RespondUpdate(calls, c, o)
    /\ UNCHANGED <<config, backend, pc, op, args, clock, timeRange, payload, attempt,
                   requests, response, lastError, delay, execResult, opResult, reply, main>>

ConcSleepElapsed(c) ==
    /\ calls[c].pc = "sleep"
    /\ calls' = [calls EXCEPT ![c] = Sent(calls[c])]
    /\ UNCHANGED <<config, backend, pc, op, args, clock, timeRange, payload, attempt,
                   requests, response, lastError, delay, execResult, opResult, reply, main>>

InitConc ==
    /\ InitWith(ToolConfigs, {"arbitrary"})
    /\ calls = [c \in CallIds |-> NewCall]
    /\ main = NoMain

NextConc ==
    \/ \E c \in CallIds : ConcStart(c)
    \/ \E c \in CallIds : ConcRespond(c)
    \/ \E c \in CallIds : ConcSleepElapsed(c)

SpecConc == InitConc /\ [][NextConc]_vars

\* A call that saw the outcomes seen and nothing else, before it sends again
RECURSIVE Alone(_)
Alone(seen) ==
    IF seen = <<>> THEN NewCall
    ELSE AfterResponse(Sent(Alone(SubSeq(seen, 1, Len(seen) - 1))), seen[Len(seen)])

\* C23: with calls running concurrently on one client, arbitrarily interleaved,
\* the attempt number, the delays and the result of each call are those of a call
\* that ran alone and received the same responses to its own requests.
C23_CallsIndependent ==
    \A c \in CallIds :
        LET alone == Alone(calls[c].seen)
        IN  \/ calls[c] = alone
            \/ alone.pc \in {"idle", "sleep"} /\ calls[c] = Sent(alone)

C23_Witness ==
    /\ calls["a"].pc = "done"
    /\ calls["a"].requests = 2
    /\ calls["a"].result.status = "threw"
    /\ calls["b"].pc = "sleep"
    /\ calls["b"].attempt = 1
    /\ calls["b"].delay = 2000


-----------------------------------------------------------------------------
(* Configuration resolution (config.ts) and main() (index.ts).             *)
(* The tokens of the command line and the values of the environment are    *)
(* sequences of characters; numbers are integers.                          *)

LOGZIO_REGIONS ==
    (<<"u", "s">> :> <<"h", "t", "t", "p", "s", ":", "/", "/", "a", "p", "i", ".", "l", "o", "g", "z", ".", "i", "o">>)
      @@ (<<"u", "s", "-", "w", "e", "s", "t">> :> <<"h", "t", "t", "p", "s", ":", "/", "/", "a", "p", "i", "-", "w", "a", ".", "l", "o", "g", "z", ".", "i", "o">>)
      @@ (<<"e", "u">> :> <<"h", "t", "t", "p", "s", ":", "/", "/", "a", "p", "i", "-", "e", "u", ".", "l", "o", "g", "z", ".", "i", "o">>)
      @@ (<<"c", "a">> :> <<"h", "t", "t", "p", "s", ":", "/", "/", "a", "p", "i", "-", "c", "a", ".", "l", "o", "g", "z", ".", "i", "o">>)
      @@ (<<"a", "u">> :> <<"h", "t", "t", "p", "s", ":", "/", "/", "a", "p", "i", "-", "a", "u", ".", "l", "o", "g", "z", ".", "i", "o">>)
      @@ (<<"u", "k">> :> <<"h", "t", "t", "p", "s", ":", "/", "/", "a", "p", "i", "-", "u", "k", ".", "l", "o", "g", "z", ".", "i", "o">>)

\* The schema's .default() values
ConfigDefaults ==
    [region |-> <<"u", "s">>, timeout |-> 30000, retryAttempts |-> 3,
     retryDelay |-> RetryDelayDefault, maxResults |-> 1000]

\* The schema's .min() and .max() of the numeric settings
ConfigRanges ==
    [timeout |-> <<1000, 60000>>, retryAttempts |-> <<RetryAttemptsMin, RetryAttemptsMax>>,
     retryDelay |-> <<RetryDelayMin, RetryDelayMax>>, maxResults |-> <<1, 10000>>]

\* Number(s) for a string s of digits, signs, letters and blanks: None is NaN.
\* Fractions, exponents and radix prefixes are not explored.
ToNumber(s) ==
    LET t == Trim(s)
        signed == t # <<>> /\ Head(t) \in {"-", "+"}
        digits == IF signed THEN Tail(t) ELSE t
    IN  IF t = <<>> THEN Some(0)
        ELSE IF digits # <<>> /\ DigitRun(digits) = digits
        THEN Some((IF Head(t) = "-" THEN -1 ELSE 1) * DecimalValue(digits, 0))
        ELSE None

\* z.string().url(): the string parses as a URL without a base, that is, it
\* starts with a scheme and a colon, and an http(s) URL names a host.
IsUrl(s) ==
    \E i \in 2..Len(s) :
        /\ s[i] = ":"
        /\ \A j \in 1..(i - 1) : s[j] \notin {":", "/", ".", "-", " "} \cup DigitChars
        /\ LET rest == SubSeq(s, i + 1, Len(s))
               host == SelectSeq(rest, LAMBDA c : c # "/")
           IN  SubSeq(s, 1, i - 1) \in {<<"h", "t", "t", "p">>, <<"h", "t", "t", "p", "s">>} => host # <<>>

\* ConfigSchema.parse(raw): the validated configuration with its defaults and
\* the transform applied, or a ZodError
ConfigSchema(raw) ==
    LET bad == {k \in {"apiKey"} : ~Has(raw, k) \/ Len(raw[k]) < 1}
                 \cup {k \in {"region"} : Has(raw, k) /\ raw[k] \notin DOMAIN LOGZIO_REGIONS}
                 \cup {k \in {"logzioUrl"} : Has(raw, k) /\ ~IsUrl(Trim(raw[k]))}
                 \cup {k \in DOMAIN ConfigRanges :
                          Has(raw, k) /\ (raw[k] < ConfigRanges[k][1] \/ raw[k] > ConfigRanges[k][2])}
        data == raw @@ ConfigDefaults
        url == IF Has(data, "logzioUrl") /\ data.logzioUrl # <<>>
               THEN data.logzioUrl
               ELSE LOGZIO_REGIONS[data.region]
    IN  IF bad # {}
        THEN Threw([name |-> "ZodError", issues |-> bad])
        ELSE Returned(("logzioUrl" :> url) @@ data)

\* The command-line word that introduces each setting
CliFlags ==
    [apiKey |-> <<"a", "p", "i", "K", "e", "y">>, region |-> <<"r", "e", "g", "i", "o", "n">>, logzioUrl |-> <<"l", "o", "g", "z", "i", "o", "U", "r", "l">>,
     timeout |-> <<"-", "-", "t", "i", "m", "e", "o", "u", "t">>, retryAttempts |-> <<"-", "-", "r", "e", "t", "r", "y", "-", "a", "t", "t", "e", "m", "p", "t", "s">>,
     maxResults |-> <<"-", "-", "m", "a", "x", "-", "r", "e", "s", "u", "l", "t", "s">>]

\* The environment variable of each setting
EnvVars ==
    [apiKey |-> "LOGZIO_API_KEY", region |-> "LOGZIO_REGION", logzioUrl |-> "LOGZIO_URL",
     timeout |-> "LOGZIO_TIMEOUT", retryAttempts |-> "LOGZIO_RETRY_ATTEMPTS",
     maxResults |-> "LOGZIO_MAX_RESULTS"]

\* parseCliArgs(args): the loop from index i on, with the config built so far
RECURSIVE ParseCliArgs(_, _, _)
ParseCliArgs(argv, i, cfg) ==
    IF i > Len(argv) THEN cfg
    ELSE LET known == {k \in DOMAIN CliFlags : CliFlags[k] = argv[i]}
             nextArg == IF i < Len(argv) THEN argv[i + 1] ELSE <<>>
         IN  IF known = {} THEN ParseCliArgs(argv, i + 1, cfg)
             ELSE LET k == CHOOSE s \in known : TRUE
                  IN  IF k \in DOMAIN ConfigRanges
                      THEN IF nextArg # <<>> /\ ToNumber(nextArg) # None
                           THEN ParseCliArgs(argv, i + 2, (k :> ToNumber(nextArg)[1]) @@ cfg)
                           ELSE ParseCliArgs(argv, i + 1, cfg)
                      ELSE IF nextArg # <<>> /\ Head(nextArg) # "-"
                           THEN ParseCliArgs(argv, i + 2, (k :> nextArg) @@ cfg)
                           ELSE ParseCliArgs(argv, i + 1, cfg)

\* parseEnvVars(): one step per setting that has a variable, with the config built so far
RECURSIVE ParseEnvVars(_, _, _)
ParseEnvVars(env, todo, cfg) ==
    IF todo = {} THEN cfg
    ELSE LET k == CHOOSE s \in todo : TRUE
             set == Has(env, EnvVars[k]) /\ env[EnvVars[k]] # <<>>
             value == IF set THEN env[EnvVars[k]] ELSE <<>>
         IN  IF ~set THEN ParseEnvVars(env, todo \ {k}, cfg)
             ELSE IF k \notin DOMAIN ConfigRanges
             THEN ParseEnvVars(env, todo \ {k}, (k :> value) @@ cfg)
             ELSE IF ToNumber(value) # None
             THEN ParseEnvVars(env, todo \ {k}, (k :> ToNumber(value)[1]) @@ cfg)
             ELSE ParseEnvVars(env, todo \ {k}, cfg)

\* The merge with the environment taking precedence over the command line
ParseConfigEnvFirst(argv, env) ==
    ConfigSchema(ParseEnvVars(env, DOMAIN EnvVars, <<>>) @@ ParseCliArgs(argv, 1, <<>>))

ParseConfig(argv, env) ==
    ConfigSchema(ParseCliArgs(argv, 1, <<>>) @@ ParseEnvVars(env, DOMAIN EnvVars, <<>>))

\* The baseURL the client's axios instance is created with
BaseURL(cfg) ==
    IF Has(cfg, "logzioUrl") /\ cfg.logzioUrl # <<>> THEN cfg.logzioUrl
    ELSE <<"h", "t", "t", "p", "s", ":", "/", "/", "a", "p", "i", ".", "l", "o", "g", "z", ".", "i", "o">>

\* The command lines explored (process.argv.slice(2))
ArgvInputs ==
    LET key == <<CliFlags.apiKey, <<"k", "1">>>>
    IN  {<<>>, key, <<CliFlags.apiKey>>, <<CliFlags.apiKey, <<"-", "k">>>>,
         key \o <<CliFlags.region, <<"e", "u">>>>,
         key \o <<CliFlags.region, <<"x", "x">>>>,
         key \o <<CliFlags.logzioUrl, <<"h", "t", "t", "p", "s", ":", "/", "/", "x", ".", "i", "o">>>>,
         key \o <<CliFlags.region, <<"e", "u">>, CliFlags.logzioUrl, <<"h", "t", "t", "p", "s", ":", "/", "/", "x", ".", "i", "o">>>>,
         key \o <<CliFlags.logzioUrl, <<"x", ".", "i", "o">>>>,
         key \o <<CliFlags.timeout, <<"5", "0", "0", "0">>, CliFlags.retryAttempts, <<"2">>,
                  CliFlags.maxResults, <<"5", "0", "0">>>>,
         key \o <<CliFlags.timeout, <<"a", "b", "c">>>>,
         key \o <<CliFlags.retryAttempts, <<"1", "1">>>>,
         key \o <<CliFlags.retryAttempts, <<"0">>>>,
         key \o <<<<"-", "-", "h", "e", "l", "p">>>>}

\* The environments explored (process.env)
EnvInputs ==
    {<<>>,
     "LOGZIO_API_KEY" :> <<"k", "2">>,
     "LOGZIO_API_KEY" :> <<>>,
     ("LOGZIO_API_KEY" :> <<"k", "2">>) @@ ("LOGZIO_REGION" :> <<"c", "a">>)
        @@ ("LOGZIO_TIMEOUT" :> <<"a", "b", "c">>),
     ("LOGZIO_API_KEY" :> <<"k", "2">>) @@ ("LOGZIO_REGION" :> <<"c", "a">>)
        @@ ("LOGZIO_URL" :> <<"h", "t", "t", "p", "s", ":", "/", "/", "y", ".", "i", "o">>) @@ ("LOGZIO_TIMEOUT" :> <<"2", "0", "0", "0">>)
        @@ ("LOGZIO_RETRY_ATTEMPTS" :> <<"1">>) @@ ("LOGZIO_MAX_RESULTS" :> <<"1", "0", "0">>)}

\* main() has not run yet
InitMain ==
    /\ InitWith({<<>>}, BackendModes)
    /\ calls = NoCalls
    /\ main \in [pc : {"start"}, argv : ArgvInputs, env : EnvInputs, code : {None},
                 error : {None}, health : {None}]

\* main() up to its first await: the help flag, parseConfig, the construction
\* of the server and its client, and the first request of the health check;
\* an exception on the way ends the process with code 1.
MainStartup ==
    /\ main.pc = "start"
    /\ pc = "idle"
    /\ UNCHANGED <<backend, args, clock, timeRange, calls>>
    /\ IF \E i \in 1..Len(main.argv) : main.argv[i] \in {<<"-", "-", "h", "e", "l", "p">>, <<"-", "h">>}
       THEN /\ main' = [main EXCEPT !.pc = "exited", !.code = Some(0)]
            /\ UNCHANGED <<config, pc, op, payload, attempt, requests, response, lastError,
                           delay, execResult, opResult, reply>>
       ELSE LET parsed == ParseConfig(main.argv, main.env)
            IN  IF parsed.status = "threw"
                THEN /\ main' = [main EXCEPT !.pc = "exited", !.code = Some(1),
                                             !.error = Some(parsed.error.name)]
                     /\ UNCHANGED <<config, pc, op, payload, attempt, requests, response,
                                    lastError, delay, execResult, opResult, reply>>
                ELSE /\ config' = parsed.value
                     /\ main' = [main EXCEPT !.pc = "health"]
                     /\ op' = "healthCheck"
                     /\ SendFirst(HealthQueryBody)

\* main() going on to server.start() only after a successful health check
MainStartIfHealthy ==
    /\ main.pc = "health"
    /\ pc = "done"
    /\ opResult.status = "returned"
    /\ main' = [main EXCEPT !.pc = "started", !.health = Some(opResult.status)]
    /\ UNCHANGED <<config, backend, pc, op, args, clock, timeRange, payload, attempt,
                   requests, response, lastError, delay, execResult, opResult, reply, calls>>

\* The health check has ended, with a result or an exception that main() only
\* logs; main() goes on to server.start(), which connects the transport.
MainStart ==
    /\ main.pc = "health"
    /\ pc = "done"
    /\ main' = [main EXCEPT !.pc = "started", !.health = Some(opResult.status)]
    /\ UNCHANGED <<config, backend, pc, op, args, clock, timeRange, payload, attempt,
                   requests, response, lastError, delay, execResult, opResult, reply, calls>>

NextMain ==
    \/ MainStartup
    \/ HttpRespond(ExecOutcomes)
    \/ SleepElapsed
    \/ MainStart

\* The process from its start to the moment the server is started
SpecMain == InitMain /\ [][NextMain]_vars


-----------------------------------------------------------------------------
(* Properties of the configuration and of the startup, checked under SpecMain *)

\* parseConfig has returned the configuration the server runs with
Configured == main.pc \in {"health", "started"}

Settings ==
    {"apiKey", "region", "logzioUrl", "timeout", "retryAttempts", "retryDelay", "maxResults"}

\* The tokens that follow the flag of setting k on the command line
CliTokens(k) ==
    IF k \notin DOMAIN CliFlags THEN {}
    ELSE {main.argv[i + 1] :
            i \in {j \in 1..(Len(main.argv) - 1) : main.argv[j] = CliFlags[k]}}

\* The value of the environment variable of setting k, if it is set
EnvValues(k) ==
    IF k \in DOMAIN EnvVars /\ Has(main.env, EnvVars[k]) THEN {main.env[EnvVars[k]]} ELSE {}

\* What a token denotes as a value of setting k: a number for a numeric setting
Denoted(k, token) == IF k \in DOMAIN ConfigRanges THEN ToNumber(token) ELSE Some(token)

\* A non-empty token that, for a numeric setting, denotes a number
Usable(k, token) ==
    token # <<>> /\ (k \in DOMAIN ConfigRanges => ToNumber(token) # None)

\* What setting k resolves to without a value: its default, and for the URL the
\* endpoint of the resolved region
Fallback(k) ==
    IF k = "logzioUrl" THEN Some(LOGZIO_REGIONS[config.region])
    ELSE IF k \in DOMAIN ConfigDefaults THEN Some(ConfigDefaults[k])
    ELSE None

Resolved(k, cli, env) ==
    IF cli # {} THEN {Denoted(k, t) : t \in cli}
    ELSE IF env # {} THEN {Denoted(k, t) : t \in env}
    ELSE {Fallback(k)}

\* C24 as stated: each setting of the resolved configuration is the value that
\* follows its flag on the command line if there is one, else the value of its
\* environment variable if it is set, else its default; and the base URL is the
\* custom logzioUrl if one is given, else the endpoint of the region.
C24_ConfigurationResolution ==
    Configured =>
        /\ \A k \in Settings : Resolved(k, CliTokens(k), EnvValues(k)) = {Some(config[k])}
        /\ Resolved("logzioUrl", CliTokens("logzioUrl"), EnvValues("logzioUrl"))
             = {Some(BaseURL(config))}

\* C24, amended: a command-line value counts only if it is non-empty, does not
\* start with "-" (for apiKey, region, logzioUrl) or denotes a number (for the
\* numeric flags); an environment value counts only if it is non-empty and, for
\* a numeric setting, denotes a number.  A value that does not count is skipped
\* and the next source is used.  With that, each setting is the command-line
\* value, else the environment value, else the default, and the base URL is the
\* custom logzioUrl, else the endpoint of the resolved region ("us" by default).
C24_UsableValuesResolution ==
    Configured =>
        LET cli(k) == {t \in CliTokens(k) :
                          Usable(k, t) /\ (k \notin DOMAIN ConfigRanges => Head(t) # "-")}
            env(k) == {t \in EnvValues(k) : Usable(k, t)}
        IN  /\ \A k \in Settings : Resolved(k, cli(k), env(k)) = {Some(config[k])}
            /\ Resolved("logzioUrl", cli("logzioUrl"), env("logzioUrl"))
                 = {Some(BaseURL(config))}
            /\ (cli("region") = {} /\ env("region") = {} /\ cli("logzioUrl") = {}
                  /\ env("logzioUrl") = {})
                 => BaseURL(config) = <<"h", "t", "t", "p", "s", ":", "/", "/", "a", "p", "i",
                                        ".", "l", "o", "g", "z", ".", "i", "o">>

\* The command line names region eu, the environment region ca and an
\* unusable timeout: the configuration has region eu, its endpoint and the
\* default timeout.
C24_Witness ==
    /\ Configured
    /\ CliTokens("region") = {<<"e", "u">>}
    /\ EnvValues("region") = {<<"c", "a">>}
    /\ EnvValues("timeout") = {<<"a", "b", "c">>}
    /\ config.region = <<"e", "u">>
    /\ BaseURL(config) = LOGZIO_REGIONS[<<"e", "u">>]
    /\ config.timeout = ConfigDefaults.timeout


-----------------------------------------------------------------------------
(* Precedence of the time arguments, checked under Spec *)

\* A search_logs or get_log_stats call with valid arguments has posted its body
TimeCallPosted == op \in TimeTools /\ requests >= 1 /\ IssuesOf(op, args) = <<>>

\* C25: in the body search_logs and get_log_stats post, an explicit from is the
\* lower bound and an explicit to the upper bound of the @timestamp range,
\* whatever timeRange is; a bound not given explicitly is the one parseTimeRange
\* returned for timeRange (for 24h when timeRange is absent), or is missing if
\* it returned none; and with both from and to given, parseTimeRange is not
\* called and the range is exactly the two explicit bounds.
C25_ExplicitBoundsWin ==
    TimeCallPosted =>
        LET range == TimestampRange(payload)
        IN  /\ Has(args, "from") => Get(range, "gte") = Some(args.from)
            /\ Has(args, "to") => Get(range, "lte") = Some(args.to)
            /\ (Has(args, "from") /\ Has(args, "to")) =>
                   /\ timeRange = NotCalled
                   /\ range = [gte |-> args.from, lte |-> args.to]
            /\ ~(Has(args, "from") /\ Has(args, "to")) =>
                   /\ timeRange.called
                   /\ ~Has(args, "timeRange") => timeRange.token = "24h"
                   /\ (Has(args, "timeRange") /\ args.timeRange # "") =>
                          timeRange.token = args.timeRange
                   /\ timeRange.result = ParseTimeRange(Some(timeRange.token), clock)
                   /\ ~Has(args, "from") => Get(range, "gte") = Get(timeRange.result, "from")
                   /\ ~Has(args, "to") => Get(range, "lte") = Get(timeRange.result, "to")

\* A search with from given, no to and timeRange 1h: the lower bound is the
\* explicit from, not one hour before now, and the upper bound is now.
C25_Witness ==
    /\ op = "search_logs"
    /\ pc = "request"
    /\ Has(args, "from") /\ args.from = DateEarly
    /\ ~Has(args, "to")
    /\ Has(args, "timeRange") /\ args.timeRange = "1h"
    /\ TimestampRange(payload) = [gte |-> DateEarly, lte |-> ToISOString(clock)]
    /\ timeRange.result.from # DateEarly


-----------------------------------------------------------------------------
(* Success and the request count of an executor call, checked under SpecExec *)

\* The step takes a failed response through the retry guard into the sleep
RetriesFailure ==
    /\ pc = "request" /\ pc' = "sleep"
    /\ response'.kind # "ok"
    /\ ShouldRetry(attempt, lastError')

\* C26: when the request of attempt k is answered successfully, the call ends in
\* that step, returns the body of that response and sends nothing more; the
\* first request is sent at the call, every later request follows exactly one
\* retried failure and every retried failure is followed by exactly one request,
\* so a completed call has issued one request more than it retried failures.
C26_SuccessReturnsBody ==
    /\ [](pc = "done" =>
            /\ execResult.status \in {"returned", "threw"}
            /\ execResult.status = "returned" <=> response.kind = "ok"
            /\ execResult.status = "returned" => execResult.value = response.data)
    /\ [][/\ (pc = "request" /\ response'.kind = "ok") =>
                /\ pc' = "done"
                /\ execResult'.status = "returned"
                /\ execResult'.value = response'.data
                /\ requests' = requests /\ attempt' = attempt
          /\ pc = "done" => FALSE
          /\ requests' # requests =>
                /\ requests' = requests + 1
                /\ \/ pc = "idle" /\ requests = 0
                   \/ pc = "sleep" /\ ShouldRetry(attempt, lastError)
          /\ pc' = "sleep" => RetriesFailure /\ requests' = requests
          /\ pc = "sleep" => pc' = "request" /\ requests' = requests + 1
          /\ (pc = "request" /\ pc' = "done" /\ response'.kind # "ok") =>
                ~ShouldRetry(attempt, lastError') /\ requests' = requests]_vars

\* The third request of a call is answered successfully after two retried
\* failures: the call returned the body of that response after three requests.
C26_Witness ==
    /\ op = "healthCheck"
    /\ pc = "done"
    /\ response.kind = "ok"
    /\ attempt = 3
    /\ requests = 3
    /\ execResult = [status |-> "returned", value |-> response.data]
    /\ lastError # NoError


-----------------------------------------------------------------------------
(* Termination of an executor call, checked under FairSpecExec *)

\* Every request in flight completes and every sleep elapses
FairSpecExec ==
    SpecExec /\ WF_vars(HttpRespond(ExecOutcomes)) /\ WF_vars(SleepElapsed)

\* C27: if every request completes and every backoff wait elapses, a call that
\* has sent its first request eventually ends, having returned a body or thrown
\* a final error, and at no point has it issued more than retryAttempts + 1
\* requests, whatever the backend answers.
C27_CallTerminates ==
    /\ [](requests <= config.retryAttempts + 1)
    /\ [](pc = "done" => execResult.status \in {"returned", "threw"})
    /\ (pc \in {"request", "sleep"}) ~> (pc = "done")

\* With the largest retry limit, a call ends with a final error after exactly
\* retryAttempts + 1 requests.
C27_Witness ==
    /\ pc = "done"
    /\ config.retryAttempts = RetryAttemptsMax
    /\ requests = RetryAttemptsMax + 1
    /\ execResult.status = "threw"
    /\ IsRetryableError(execResult.error)


-----------------------------------------------------------------------------
(* Classification of failed attempts, checked under SpecExec *)

\* C28: after a failed attempt, the error makeRequest caught is the one the
\* response-error handler threw for that failure, of exactly one class: an
\* AuthenticationError for status 401, a RateLimitError with the delay parsed
\* from the headers for status 429, an ApiError made from the status and the
\* body for any other status, and without a response an ApiError with the
\* message of the original error (with "Unknown API error" if what was thrown
\* is not an Error); the attempt never yields a returned value.
C28_FailureClassified ==
    response.kind \in {"http", "transport"} =>
        /\ lastError.name \in {"AuthenticationError", "RateLimitError", "ApiError"}
        /\ execResult.status # "returned"
        /\ pc \in {"sleep", "done"}
        /\ pc = "done" => execResult = Threw(lastError)
        /\ IF response.kind = "transport"
           THEN /\ lastError.name = "ApiError"
                /\ lastError.statusCode = None
                /\ lastError.message
                     = IF response.isError THEN response.message ELSE "Unknown API error"
           ELSE /\ lastError.name = "AuthenticationError" <=> response.status = 401
                /\ lastError.name = "RateLimitError" <=> response.status = 429
                /\ lastError.name = "ApiError" <=> response.status \notin {401, 429}
                /\ lastError.statusCode = Some(response.status)
                /\ response.status = 401 =>
                      /\ lastError.message = AuthFailedMessage
                      /\ ErrorKind(lastError) = "Authentication"
                /\ response.status = 429 =>
                      /\ lastError.retryAfter = ParseRetryAfter(response.headers)
                      /\ ErrorKind(lastError) = "RateLimit"
                /\ response.status \notin {401, 429} =>
                      lastError = ApiErrorFromResponse(response.status, response.data)

\* A 429 response with Retry-After: 2 was classified as a RateLimitError with a
\* delay of 2000 ms.
C28_Witness ==
    /\ response = HttpError(429, "retry-after" :> <<"2">>)
    /\ lastError.name = "RateLimitError"
    /\ lastError.retryAfter = Some(2000)
    /\ pc = "sleep"


-----------------------------------------------------------------------------
(* Tool dispatch, checked under Spec *)

\* C29 as stated: isValidTool holds of a name exactly if it is one of the three
\* registered tools, and a call with any other name, inherited property names
\* included, is answered with a MethodNotFound error without a handler having
\* run or a request having been sent.
C29_OnlyRegisteredToolsDispatched ==
    pc # "idle" =>
        /\ IsValidTool(op) <=> op \in ToolNames
        /\ op \notin ToolNames =>
              /\ pc = "done"
              /\ reply = Threw(McpError("MethodNotFound", "Unknown tool: " \o op))
              /\ opResult = Pending
              /\ requests = 0


-----------------------------------------------------------------------------
(* Startup ordering, checked under FairSpecMain *)

\* Every request in flight completes, every sleep elapses, and main() resumes
\* when the health check it awaits has ended
FairSpecMain ==
    /\ SpecMain
    /\ WF_vars(MainStart)
    /\ WF_vars(HttpRespond(ExecOutcomes)) /\ WF_vars(SleepElapsed)

\* The command line asks for the usage text
HelpAsked ==
    \E i \in 1..Len(main.argv) :
        main.argv[i] \in {<<"-", "-", "h", "e", "l", "p">>, <<"-", "h">>}

\* C30: once parseConfig has returned a configuration, the health check runs and
\* the server is eventually started, whether the check returned or threw after
\* its retries, and it is started only after the check has ended; if parseConfig
\* rejects the command line and the environment, the process exits with code 1,
\* and then no request of the health check has been sent, no server has been
\* constructed or started, and nothing happens afterwards.
C30_StartupOrdering ==
    /\ (main.pc = "health") ~> (main.pc = "started")
    /\ [](main.pc = "started" =>
            /\ pc = "done"
            /\ op = "healthCheck"
            /\ requests >= 1 /\ requests <= config.retryAttempts + 1
            /\ main.health = Some(opResult.status)
            /\ opResult.status \in {"returned", "threw"})
    /\ []((main.pc # "start" /\ ~HelpAsked) =>
            IF ParseConfig(main.argv, main.env).status = "returned"
            THEN main.pc \in {"health", "started"} /\ main.code = None
            ELSE /\ main.pc = "exited" /\ main.code = Some(1)
                 /\ config = <<>> /\ op = "none" /\ pc = "idle" /\ requests = 0)
    /\ [][main.pc = "exited" => FALSE]_vars

\* The server was started after a health check that failed on every one of its
\* four requests.
C30_Witness ==
    /\ main.pc = "started"
    /\ main.health = Some("threw")
    /\ config.retryAttempts = ConfigDefaults.retryAttempts
    /\ requests = config.retryAttempts + 1
    /\ execResult.status = "threw"

====
